---- MODULE Spec2Model ----
(***************************************************************************)
(* Flow traversal and branch resolution of articy-js: the game flow state  *)
(* (iterator.ts), the flow node kinds (flowTypes.ts) and the script        *)
(* evaluator with its action queue (script.ts).                            *)
(*                                                                         *)
(* JavaScript objects that the code shares by reference and may write in   *)
(* place (variable stores, visit sets, branch arrays) live in heaps and    *)
(* are held by reference; everything else is held by value.                *)
(***************************************************************************)
EXTENDS Integers, Sequences, FiniteSets, TLC

VARIABLES db, cur, heapVars, heapVisits, heapBranches, actionQueue, queueOn,
          policy, op,
          registeredFunctions, featureHandlers, templateHandlers,
          frames, passes, dispatched, yieldLog, finalizeAction, evaluated

(* the registries of script.ts: script functions by name, execution    *)
(* handlers by feature name and by template name                       *)
registryVars == <<registeredFunctions, featureHandlers, templateHandlers>>

(* the middleware invocations in flight, the wrapped action of every   *)
(* pass begun, what the store was asked to dispatch, what generators   *)
(* yielded, and whether a finalize action is configured                *)
passVars == <<frames, passes, dispatched, yieldLog, finalizeAction>>

vars == <<db, cur, heapVars, heapVisits, heapBranches, actionQueue, queueOn,
          policy, op, registryVars, passVars, evaluated>>

(* ------------------------------------------------------------------ *)
(* Bounds of the model                                                 *)
(* ------------------------------------------------------------------ *)
MaxTurn == 2
MaxQueue == 1
MaxMerged == 1
MaxBranches == 3
MaxVisits == 2
MaxPasses == 3
MaxDepth == 2
MaxYields == 2
MaxYieldLog == 4

(* ------------------------------------------------------------------ *)
(* Ids, scripts and the exported flow graph                            *)
(* ------------------------------------------------------------------ *)
Null == "null"

(* scripts: empty, a comment, Test.X = k, Test.X >= k, Test.X, the      *)
(* number k, and the call f(k) of a script function                    *)
NoScript == [op |-> "none", k |-> 0, f |-> Null]
Comment == [op |-> "comment", k |-> 0, f |-> Null]
SetX(k) == [op |-> "set", k |-> k, f |-> Null]
XAtLeast(k) == [op |-> "ge", k |-> k, f |-> Null]
XValue == [op |-> "value", k |-> 0, f |-> Null]
Literal(k) == [op |-> "number", k |-> k, f |-> Null]
Call(f, k) == [op |-> "call", k |-> k, f |-> f]
Once == Call("once", 0)
Notify == Call("notify", 0)
Limit(k) == Call("limit", k)

Conn(target, pin) == [Target |-> target, TargetPin |-> pin]

PinNode(kind, owner, text, conns) ==
  [kind |-> kind, Owner |-> owner, Text |-> text, Connections |-> conns,
   InputPins |-> <<>>, OutputPins |-> <<>>, Expression |-> NoScript,
   Template |-> {}, y |-> 0, TargetPin |-> Null, covisits |-> <<>>,
   Type |-> kind]

ObjNode(kind, ins, outs, expr, template, y, target, covisits) ==
  [kind |-> kind, Owner |-> Null, Text |-> NoScript, Connections |-> <<>>,
   InputPins |-> ins, OutputPins |-> outs, Expression |-> expr,
   Template |-> template, y |-> y, TargetPin |-> target, covisits |-> covisits,
   Type |-> kind]

(* an object loaded as a template type: its type is the template's     *)
(* technical name                                                      *)
Templated(node, type) == [node EXCEPT !.Type = type]

(* the flow graph of the loaded export: what Database holds in _lookup *)
ExportedGraph ==
     ("S"  :> ObjNode("FlowFragment", <<"Si">>, <<>>, NoScript, {}, 0, Null, <<>>))
  @@ ("Si" :> PinNode("InputPin", "S", NoScript, <<Conn("A", "Ai")>>))
  @@ ("Ai" :> PinNode("InputPin", "A", NoScript, <<>>))
  @@ ("A"  :> ObjNode("DialogueFragment", <<"Ai">>, <<"Ao">>, NoScript, {}, 1, Null, <<>>))
  @@ ("Ao" :> PinNode("OutputPin", "A", NoScript,
                      <<Conn("D", "Di"), Conn("B", "Bi"), Conn("C", "Ci")>>))
  @@ ("Bi" :> PinNode("InputPin", "B", XAtLeast(1), <<>>))
  @@ ("B"  :> ObjNode("DialogueFragment", <<"Bi">>, <<"Bo">>, NoScript, {}, 1, Null, <<>>))
  @@ ("Bo" :> PinNode("OutputPin", "B", SetX(2), <<Conn("E", "Ei")>>))
  @@ ("Ci" :> PinNode("InputPin", "C", Once, <<>>))
  @@ ("C"  :> ObjNode("DialogueFragment", <<"Ci">>, <<"Co">>, NoScript, {}, 2, Null, <<"A">>))
  @@ ("Co" :> PinNode("OutputPin", "C", Comment, <<Conn("J", "Ji")>>))
  @@ ("Ji" :> PinNode("InputPin", "J", NoScript, <<>>))
  @@ ("J"  :> ObjNode("Jump", <<"Ji">>, <<>>, NoScript, {}, 2, "Ei", <<>>))
  @@ ("Di" :> PinNode("InputPin", "D", NoScript, <<>>))
  @@ ("D"  :> ObjNode("Instruction", <<"Di">>, <<"Do">>, SetX(1), {}, 3, Null, <<>>))
  @@ ("Do" :> PinNode("OutputPin", "D", NoScript, <<Conn("K", "Ki")>>))
  @@ ("Ki" :> PinNode("InputPin", "K", NoScript, <<>>))
  @@ ("K"  :> ObjNode("Condition", <<"Ki">>, <<"Kt", "Kf">>, XAtLeast(1), {}, 3, Null, <<>>))
  @@ ("Kt" :> PinNode("OutputPin", "K", NoScript, <<Conn("F", "Fi")>>))
  @@ ("Kf" :> PinNode("OutputPin", "K", NoScript, <<Conn("E", "Ei")>>))
  @@ ("Fi" :> PinNode("InputPin", "F", NoScript, <<>>))
  @@ ("F"  :> Templated(ObjNode("Hub", <<"Fi">>, <<"Fo">>, NoScript, {"Pause"},
                                3, Null, <<>>), "PauseHub"))
  @@ ("Fo" :> PinNode("OutputPin", "F", NoScript, <<Conn("T", "Ti")>>))
  @@ ("Ei" :> PinNode("InputPin", "E", NoScript, <<>>))
  @@ ("E"  :> ObjNode("DialogueFragment", <<"Ei">>, <<>>, NoScript, {}, 4, Null, <<>>))
  @@ ("Ti" :> PinNode("InputPin", "T", NoScript, <<>>))
  @@ ("T"  :> ObjNode("Instruction", <<"Ti">>, <<"To">>, SetX(2), {}, 5, Null, <<>>))
  @@ ("To" :> PinNode("OutputPin", "T", NoScript, <<>>))
  @@ ("M"  :> ObjNode("Instruction", <<>>, <<"Mo">>, SetX(1), {}, 6, Null, <<>>))
  @@ ("Mo" :> PinNode("OutputPin", "M", NoScript, <<Conn("Y", "Yi")>>))
  @@ ("Yi" :> PinNode("InputPin", "Y", NoScript, <<>>))
  @@ ("Y"  :> ObjNode("DialogueFragment", <<"Yi">>, <<"Yo">>, NoScript, {}, 6, Null, <<>>))
  @@ ("Yo" :> PinNode("OutputPin", "Y", Notify, <<Conn("B", "Bi")>>))

NodeIds == DOMAIN db

(* ids a caller may hand to Startup and Merge: objects, the input pin  *)
(* "Ei", and "Zz" that resolves to no node                              *)
StartIds == {"S", "E", "M", "Ei", "Zz"}

(* GameIterationConfig *)
stopAtTypes == {"DialogueFragment"}
stopAtFeatures == {"Pause"}

(* CustomStopType *)
NormalStop == "NORMAL_STOP"
StopAndContinue == "STOP_AND_CONTINUE"
Continue == "CONTINUE"
Drop == "DROP"
CreatePage == "CREATE_PAGE"
AdvanceStop == "ADVANCE"
NoAnswer == "undefined"
CustomStopTypes == {NormalStop, StopAndContinue, Continue, Drop, CreatePage, AdvanceStop}

(* ------------------------------------------------------------------ *)
(* Heaps: the world an operation runs in                               *)
(* ------------------------------------------------------------------ *)
(* db.newVariableStore(): namespace Test with Test.X = 0 *)
newVariableStore == [ns |-> TRUE, X |-> 0]
(* the store literal {} of NullGameFlowState: no namespace declared *)
EmptyStore == [ns |-> FALSE, X |-> 0]

EmptyMap == [x \in {} |-> 0]
EmptyVisitSet == [counts |-> EmptyMap, indicies |-> EmptyMap]

(* the element of a singleton: The({ f(x) : x \in {e} }) is f applied *)
(* to the value of e                                                   *)
The(S) == CHOOSE e \in S : TRUE

Get(f, k, d) == IF k \in DOMAIN f THEN f[k] ELSE d
Put(f, k, v) == [x \in (DOMAIN f) \cup {k} |-> IF x = k THEN v ELSE f[x]]

AllocVars(w, store) ==
  [w |-> [w EXCEPT !.vars = Append(@, store)], ref |-> Len(w.vars) + 1]
AllocVisits(w, vs) ==
  [w |-> [w EXCEPT !.vis = Append(@, vs)], ref |-> Len(w.vis) + 1]
AllocBranches(w, bs) ==
  [w |-> [w EXCEPT !.brs = Append(@, bs)], ref |-> Len(w.brs) + 1]

cloneVariableStore(w, ref) == AllocVars(w, w.vars[ref])

(* ------------------------------------------------------------------ *)
(* Script evaluator (script.ts)                                        *)
(* ------------------------------------------------------------------ *)
(* queueGeneratedActions gone wrong: shadowed evaluations queue too *)
queueAlsoShadowed(w, yielded, shadowing) ==
  IF w.queueOn THEN [w EXCEPT !.queue = @ \o yielded] ELSE w

(* one yielded action is pushed unless shadowing or no queue is primed *)
queueGeneratedActions(w, yielded, shadowing) ==
  IF ~shadowing /\ w.queueOn
    THEN [w EXCEPT !.queue = @ \o yielded]
    ELSE w

(* once() gone wrong: a caller with a count of 0 counts as visited *)
onceWhenAbsent(visits, caller) == ~(caller \in DOMAIN visits.counts)

(* once(): true iff the caller has no visit count or a count of 0 *)
OnceFn(visits, caller) ==
  ~(caller \in DOMAIN visits.counts) \/ visits.counts[caller] = 0

(* limit(max), max a number: true iff the caller has no visit count    *)
(* and max is not 0, or has a count below max                          *)
LimitFn(visits, caller, max) ==
  IF ~(caller \in DOMAIN visits.counts) /\ max = 0 THEN FALSE
  ELSE IF ~(caller \in DOMAIN visits.counts) \/ visits.counts[caller] < max
    THEN TRUE
  ELSE FALSE

(* the values a script evaluates to *)
Bool(b) == [t |-> "boolean", b |-> b, n |-> 0]
Num(n) == [t |-> "number", b |-> FALSE, n |-> n]
Undefined == [t |-> "undefined", b |-> FALSE, n |-> 0]

(* what a registered function does when a script calls it: the       *)
(* built-ins once and limit, a generator that yields one action and    *)
(* returns nothing, or a host function that returns a number           *)
OnceHandler == [impl |-> "once", returns |-> 0]
LimitHandler == [impl |-> "limit", returns |-> 0]
NotifyHandler == [impl |-> "generator", returns |-> 0]
HostFunction(k) == [impl |-> "function", returns |-> k]
NativeHandler(name) == [impl |-> name, returns |-> 0]

(* wrapScriptFunction: the registered function is called with the      *)
(* context; what a generator yields is queued unless shadowing         *)
wrapScriptFunction(w, func, sref, caller, arg, shadowing) ==
  CASE func.impl = "once" -> [w |-> w, val |-> Bool(OnceFn(w.vis[sref], caller))]
    [] func.impl = "limit" ->
         [w |-> w, val |-> Bool(LimitFn(w.vis[sref], caller, arg))]
    [] func.impl = "generator" ->
         [w |-> queueGeneratedActions(
                  w, <<[type |-> "notify", caller |-> caller]>>, shadowing),
          val |-> Undefined]
    [] func.impl = "function" -> [w |-> w, val |-> Num(func.returns)]
    [] OTHER -> [w |-> w, val |-> Undefined]

(* runScriptRaw: the value the script evaluates to and the world it    *)
(* leaves. A script that names Test.X against a store without the      *)
(* namespace, or a function that is not registered, raises a           *)
(* ReferenceError: err. Without returns the value is dropped.          *)
runScriptRaw(w, script, vref, sref, caller, returns, shadowing) ==
  LET given(v) == IF returns THEN v ELSE Undefined
      raised == [w |-> [w EXCEPT !.err = TRUE], val |-> Undefined]
      dropped(r) == [w |-> r.w, val |-> given(r.val)]
  IN
  CASE script.op \in {"none", "comment"} -> [w |-> w, val |-> Bool(TRUE)]
    [] script.op = "set" ->
         IF ~w.vars[vref].ns THEN raised
         ELSE [w |-> [w EXCEPT !.vars[vref].X = script.k],
               val |-> given(Num(script.k))]
    [] script.op = "ge" ->
         IF ~w.vars[vref].ns THEN raised
         ELSE [w |-> w, val |-> given(Bool(w.vars[vref].X >= script.k))]
    [] script.op = "value" ->
         IF ~w.vars[vref].ns THEN raised
         ELSE [w |-> w, val |-> given(Num(w.vars[vref].X))]
    [] script.op = "number" -> [w |-> w, val |-> given(Num(script.k))]
    [] script.op = "call" ->
         IF script.f \notin DOMAIN registeredFunctions THEN raised
         ELSE dropped(wrapScriptFunction(w, registeredFunctions[script.f], sref,
                                         caller, script.k, shadowing))

(* runScript: whether the raw result is the boolean true *)
runScript(w, script, vref, sref, caller, returns, shadowing) ==
  The({ [w |-> r.w, val |-> r.val = Bool(TRUE)]
        : r \in {runScriptRaw(w, script, vref, sref, caller, returns,
                              shadowing)} })

ScriptLength(script) == IF script.op = "none" THEN 0 ELSE 1

(* ------------------------------------------------------------------ *)
(* Flow node kinds (flowTypes.ts)                                      *)
(* ------------------------------------------------------------------ *)
getObject(id) == IF id \in NodeIds THEN id ELSE Null

NoConn == Conn(Null, Null)
Nowhere == [node |-> Null, conn |-> NoConn]

PositionY(c) == IF c.Target \in NodeIds THEN db[c.Target].y ELSE 0

RECURSIVE InsertConn(_, _)
(* the sort gone wrong: a connection is placed after those of equal y *)
InsertAfterTies(c, s) ==
  IF s = <<>> THEN <<c>>
  ELSE IF PositionY(c) < PositionY(Head(s)) THEN <<c>> \o s
  ELSE <<Head(s)>> \o InsertConn(c, Tail(s))

InsertConn(c, s) ==
  IF s = <<>> THEN <<c>>
  ELSE IF PositionY(c) <= PositionY(Head(s)) THEN <<c>> \o s
  ELSE <<Head(s)>> \o InsertConn(c, Tail(s))

RECURSIVE SortConnections(_)
SortConnections(s) ==
  IF s = <<>> THEN <<>> ELSE InsertConn(Head(s), SortConnections(Tail(s)))

(* BasePin.connections(): the pin's connections sorted by the y of the target *)
connections(pin) == SortConnections(db[pin].Connections)

nextFromConnections(branchIndex, conns) ==
  IF Len(conns) = 0 THEN Nowhere
  ELSE IF branchIndex = -1 /\ Len(conns) > 1 THEN Nowhere
  ELSE LET bi == IF branchIndex < 0 THEN 0 ELSE branchIndex
       IN IF bi >= Len(conns) THEN Nowhere
          ELSE [node |-> getObject(conns[bi + 1].TargetPin), conn |-> conns[bi + 1]]

(* BaseFragment: the input pin the walk came in from *)
inputPinToFollow(n, last) ==
  IF last = Null THEN db[n].InputPins[1]
  ELSE IF \E i \in 1..Len(db[n].InputPins) : db[n].InputPins[i] = last
         THEN last ELSE Null

JumpTarget(n) ==
  IF db[n].TargetPin \in NodeIds /\ db[db[n].TargetPin].kind = "InputPin"
    THEN db[n].TargetPin ELSE Null

needsShadow(n) ==
  CASE db[n].kind = "OutputPin" -> ScriptLength(db[n].Text) > 0
    [] db[n].kind = "Instruction" -> ScriptLength(db[n].Expression) > 0
    [] OTHER -> FALSE

numBranches(w, n, vref, sref, last, shadowing) ==
  LET g == db[n] IN
  CASE g.kind = "OutputPin" -> [w |-> w, n |-> Len(connections(n))]
    [] g.kind = "InputPin" ->
         LET guarded(r) == [w |-> r.w, n |-> IF r.val THEN 1 ELSE 0]
         IN guarded(runScript(w, g.Text, vref, sref, n, TRUE, shadowing))
    [] g.kind \in {"Hub", "DialogueFragment"} ->
         [w |-> w, n |-> IF Len(g.OutputPins) = 0 THEN 0 ELSE 1]
    [] g.kind \in {"Condition", "Instruction"} -> [w |-> w, n |-> 1]
    [] g.kind = "Jump" -> [w |-> w, n |-> IF JumpTarget(n) # Null THEN 1 ELSE 0]
    [] g.kind \in {"FlowFragment", "Dialogue"} ->
         IF Len(g.InputPins) = 0 THEN [w |-> w, n |-> 0]
         ELSE LET pin == inputPinToFollow(n, last) IN
              IF pin = Null THEN [w |-> w, n |-> 0]
              ELSE IF Len(connections(pin)) = 0
                     THEN [w |-> w, n |-> IF Len(g.OutputPins) = 0 THEN 0 ELSE 1]
                     ELSE [w |-> w, n |-> Len(connections(pin))]

WithWorld(w, nc) == [w |-> w, node |-> nc.node, conn |-> nc.conn]
FirstOutputPin(n) ==
  IF Len(db[n].OutputPins) = 0 THEN Nowhere
  ELSE [node |-> db[n].OutputPins[1], conn |-> NoConn]

next(w, n, vref, sref, branchIndex, last, shadowing) ==
  LET g == db[n] IN
  CASE g.kind = "OutputPin" ->
         LET r == runScript(w, g.Text, vref, sref, n, FALSE, shadowing)
         IN WithWorld(r.w, nextFromConnections(branchIndex, connections(n)))
    [] g.kind = "InputPin" ->
         WithWorld(w, [node |-> getObject(g.Owner), conn |-> NoConn])
    [] g.kind \in {"Hub", "DialogueFragment"} -> WithWorld(w, FirstOutputPin(n))
    [] g.kind = "Condition" ->
         LET pinAt(i) == IF i <= Len(g.OutputPins)
                            THEN [node |-> g.OutputPins[i], conn |-> NoConn]
                            ELSE Nowhere
             decided(r) == WithWorld(r.w, pinAt(IF r.val THEN 1 ELSE 2))
         IN decided(runScript(w, g.Expression, vref, sref, n, TRUE, shadowing))
    [] g.kind = "Instruction" ->
         LET r == runScript(w, g.Expression, vref, sref, n, FALSE, shadowing)
         IN WithWorld(r.w, FirstOutputPin(n))
    [] g.kind = "Jump" -> WithWorld(w, [node |-> JumpTarget(n), conn |-> NoConn])
    [] g.kind \in {"FlowFragment", "Dialogue"} ->
         IF Len(g.InputPins) = 0 THEN WithWorld(w, Nowhere)
         ELSE LET pin == inputPinToFollow(n, last) IN
              IF pin = Null THEN WithWorld(w, Nowhere)
              ELSE IF Len(connections(pin)) = 0 THEN WithWorld(w, FirstOutputPin(n))
              ELSE WithWorld(w, nextFromConnections(branchIndex, connections(pin)))

(* execute gone wrong: a step is passed without running its script *)
executeNothing(w, n, vref, sref) == w

(* execute: the scripts of next without the move; always non-shadow *)
execute(w, n, vref, sref) ==
  CASE db[n].kind = "OutputPin" ->
         runScript(w, db[n].Text, vref, sref, n, FALSE, FALSE).w
    [] db[n].kind = "Instruction" ->
         runScript(w, db[n].Expression, vref, sref, n, FALSE, FALSE).w
    [] OTHER -> w

(* BaseFlowNode.visits(): ids counted as visited together with the node *)
forcedVisits(n) == db[n].covisits

(* ------------------------------------------------------------------ *)
(* Execution handlers (script.ts, OnNodeExecution)                     *)
(* ------------------------------------------------------------------ *)
(* a handler: a plain function, or a generator that yields actions *)
Handler(name) == [name |-> name, generator |-> FALSE, yields |-> <<>>]
Generator(name, yields) == [name |-> name, generator |-> TRUE, yields |-> yields]

(* the actions a generator handler yields when run for node n *)
actionsOf(h, n) == [k \in 1..Len(h.yields) |-> [type |-> h.yields[k], caller |-> n]]

(* handler(node.db, feature, node, state): the call is recorded with    *)
(* what the handler reads in the state it is passed; a generator's      *)
(* actions are queued, never shadowed                                   *)
callHandler(w, h, n, vref, sref) ==
  LET called == [w EXCEPT !.calls =
                   Append(@, [handler |-> h.name, node |-> n,
                              X |-> w.vars[vref].X,
                              counts |-> w.vis[sref].counts])]
  IN IF h.generator THEN queueGeneratedActions(called, actionsOf(h, n), FALSE)
     ELSE called

RECURSIVE runHandlers(_, _, _, _, _, _)
runHandlers(w, handlers, i, n, vref, sref) ==
  IF i > Len(handlers) THEN w
  ELSE runHandlers(callHandler(w, handlers[i], n, vref, sref), handlers, i + 1,
                   n, vref, sref)

(* Object.keys(node.template): the features of the node's template *)
RECURSIVE featureKeys(_)
featureKeys(features) ==
  IF features = {} THEN <<>>
  ELSE LET f == CHOOSE x \in features : TRUE
       IN <<f>> \o featureKeys(features \ {f})

RECURSIVE runFeatureHandlers(_, _, _, _, _, _)
runFeatureHandlers(w, keys, k, n, vref, sref) ==
  IF k > Len(keys) THEN w
  ELSE IF keys[k] \notin DOMAIN featureHandlers
    THEN runFeatureHandlers(w, keys, k + 1, n, vref, sref)
    ELSE runFeatureHandlers(
           runHandlers(w, featureHandlers[keys[k]], 1, n, vref, sref),
           keys, k + 1, n, vref, sref)

(* OnNodeExecution gone wrong: the handlers of the node's type run     *)
(* whether or not the node has a template                              *)
runTypeHandlersAlways(w, n, vref, sref) ==
  The({ IF db[n].Type \in DOMAIN templateHandlers
          THEN runHandlers(f, templateHandlers[db[n].Type], 1, n, vref, sref)
          ELSE f
        : f \in {runFeatureHandlers(w, featureKeys(db[n].Template), 1, n,
                                    vref, sref)} })

(* OnNodeExecution(node, state): vref and sref are the variables and   *)
(* visits of the state passed                                          *)
OnNodeExecution(w, n, vref, sref) ==
  IF db[n].Template = {} THEN w
  ELSE The({ IF db[n].Type \in DOMAIN templateHandlers
               THEN runHandlers(f, templateHandlers[db[n].Type], 1, n, vref, sref)
               ELSE f
             : f \in {runFeatureHandlers(w, featureKeys(db[n].Template), 1, n,
                                         vref, sref)} })

(* ------------------------------------------------------------------ *)
(* Branch collection (iterator.ts)                                     *)
(* ------------------------------------------------------------------ *)
NoBranch == [index |-> -1, path |-> <<>>, branchedFrom |-> Null]

EmptyResult ==
  [hasBranches |-> FALSE, branches |-> <<>>, hasPages |-> FALSE, pages |-> <<>>,
   hasTerminal |-> FALSE, terminalBranch |-> NoBranch]
(* BranchesOnly gone wrong: the node stopped at is left off the path *)
BranchesCutShort(bs) ==
  [EmptyResult EXCEPT
     !.hasBranches = TRUE,
     !.branches = [k \in 1..Len(bs) |->
                     [bs[k] EXCEPT !.path = SubSeq(@, 1, Len(@) - 1)]]]

BranchesOnly(bs) == [EmptyResult EXCEPT !.hasBranches = TRUE, !.branches = bs]

PagesOnly(ps) == [EmptyResult EXCEPT !.hasPages = TRUE, !.pages = ps]

TerminalOnly(b) == [EmptyResult EXCEPT !.hasTerminal = TRUE, !.terminalBranch = b]

(* merge(a, b): keys branches and pages only when either side has them; *)
(* key terminalBranch always, with a's value winning                    *)
merge(a, b) ==
  [hasBranches |-> a.hasBranches \/ b.hasBranches,
   branches |-> a.branches \o b.branches,
   hasPages |-> a.hasPages \/ b.hasPages,
   pages |-> a.pages \o b.pages,
   hasTerminal |-> TRUE,
   terminalBranch |-> IF a.terminalBranch # NoBranch THEN a.terminalBranch
                      ELSE b.terminalBranch]

shouldStopAt(n) ==
  \/ db[n].kind \in stopAtTypes
  \/ db[n].Template \cap stopAtFeatures # {}

(* config.customStopHandler: the answers of the configured policy *)
customStopHandler(node) ==
  IF node \in DOMAIN policy.answer THEN policy.answer[node] ELSE NoAnswer

basicNextFlowState(w, state, branchIndex, sref) ==
  IF state.id = Null
    THEN [w |-> w, iter |-> state, node |-> Null, conn |-> NoConn]
  ELSE
    LET node == getObject(state.id)
        nx == IF node = Null THEN WithWorld(w, Nowhere)
              ELSE next(w, node, state.variables, sref, branchIndex,
                        state.last, state.shadowing)
    IN IF nx.node = Null
         THEN LET a == AllocVars(nx.w, EmptyStore)
              IN [w |-> a.w,
                  iter |-> [id |-> Null, last |-> Null, variables |-> a.ref,
                            shadowing |-> state.shadowing],
                  node |-> Null, conn |-> NoConn]
         ELSE [w |-> nx.w,
               iter |-> [id |-> nx.node, last |-> state.id,
                         variables |-> state.variables,
                         shadowing |-> state.shadowing],
               node |-> nx.node, conn |-> nx.conn]

(* the clone gone wrong: the walk writes to the store it was given *)
shadowStoreShared(w, node, vref) == [w |-> w, ref |-> vref]

(* the variable store a walk steps with: a clone when the node may write *)
shadowStore(w, node, vref) ==
  IF needsShadow(node) THEN cloneVariableStore(w, vref)
  ELSE [w |-> w, ref |-> vref]

(* the branch that continues past a Stop-and-continue node *)
forkedPast(branch, index) ==
  [index |-> index + 1, path |-> branch.path, branchedFrom |-> branch.branchedFrom]

(* the branch that continues past a Create-page node *)
pageBranch(branch, id) == [branch EXCEPT !.branchedFrom = id]

(* the index the next fork starts from *)
nextForkIndex(result, index) ==
  IF result.hasBranches /\ Len(result.branches) > 0
    THEN result.branches[Len(result.branches)].index + 1
    ELSE index

(* return { branches: [branch] }: the emission is recorded with the   *)
(* value the walk's store holds at that moment                         *)
emit(w, iter, branch) ==
  [w EXCEPT !.emitted = Append(@, [path |-> branch.path, index |-> branch.index,
                                   X |-> w.vars[iter.variables].X])]

RECURSIVE collectBranches(_, _, _, _, _, _, _, _)
RECURSIVE walk(_, _, _, _, _, _, _, _, _)
RECURSIVE arrive(_, _, _, _, _)
RECURSIVE forks(_, _, _, _, _, _, _, _, _, _)

collectBranches(w, iter, sref, branch, index, direction, node, prevConnections) ==
  IF iter.id = Null THEN [w |-> w, r |-> EmptyResult]
  ELSE
    LET n == IF node # Null THEN node ELSE getObject(iter.id) IN
    IF n = Null THEN [w |-> w, r |-> EmptyResult]
    ELSE
      LET b == IF branch = NoBranch
                 THEN [index |-> index, path |-> <<>>, branchedFrom |-> iter.id]
                 ELSE branch
      IN The({ walk(nb.w, iter, sref, b, index, direction, n,
                    prevConnections, nb.n)
               : nb \in {numBranches(w, n, iter.variables, sref, iter.last,
                                     iter.shadowing)} })

(* one turn of the while loop of collectBranches: shadow, then step *)
walk(w, iter, sref, branch, index, direction, node, taken, branches) ==
  IF branches = 1 \/ direction >= 0 THEN
    The({ arrive(basicNextFlowState(c.w, [iter EXCEPT !.variables = c.ref],
                                    direction, sref),
                 sref, branch, index, taken)
          : c \in {shadowStore(w, node, iter.variables)} })
  ELSE IF branches = 0 THEN [w |-> w, r |-> TerminalOnly(branch)]
  ELSE forks(w, iter, sref, branch, index, node, taken, branches, 0,
             EmptyResult)

(* the rest of the turn: what the walk does with the node it stepped to *)
arrive(nx, sref, branch, index, taken) ==
  LET conns == IF nx.conn # NoConn THEN Append(taken, nx.conn) ELSE taken
      b2 == [branch EXCEPT !.path = Append(@, nx.node)]
      joined(first, rec) == [w |-> rec.w, r |-> merge(first, rec.r)]
      behaviour == IF policy.has THEN customStopHandler(nx.node) ELSE NormalStop
  IN
  IF nx.node = Null THEN [w |-> nx.w, r |-> TerminalOnly(branch)]
  ELSE IF ~shouldStopAt(nx.node) \/ behaviour = Continue THEN
    The({ walk(nb.w, nx.iter, sref, b2, index, -1, nx.node, conns, nb.n)
          : nb \in {numBranches(nx.w, nx.node, nx.iter.variables, sref,
                                nx.iter.last, nx.iter.shadowing)} })
  ELSE
    CASE behaviour = StopAndContinue ->
           joined(BranchesOnly(<<b2>>),
                  collectBranches(emit(nx.w, nx.iter, b2), nx.iter, sref,
                                  forkedPast(b2, index),
                                  index + 1, 0, nx.node, <<>>))
      [] behaviour = Drop -> [w |-> nx.w, r |-> EmptyResult]
      [] behaviour = CreatePage ->
           joined(PagesOnly(<<nx.iter.id>>),
                  collectBranches(nx.w, nx.iter, sref, pageBranch(b2, nx.iter.id),
                                  index + 1, 0, nx.node, <<>>))
      [] OTHER -> [w |-> emit(nx.w, nx.iter, b2), r |-> BranchesOnly(<<b2>>)]

(* the fork loop gone wrong: the last fork is not walked *)
forksButLast(w, iter, sref, branch, index, node, taken, branches, i, result) ==
  IF i >= branches - 1 THEN [w |-> w, r |-> result]
  ELSE
    LET forked == [index |-> index, path |-> branch.path,
                   branchedFrom |-> branch.branchedFrom]
    IN The({ forks(m.w, iter, sref, branch, nextForkIndex(m.r, index), node,
                   taken, branches, i + 1, m.r)
             : m \in {The({ [w |-> rec.w, r |-> merge(result, rec.r)]
                            : rec \in {collectBranches(w, iter, sref, forked,
                                                       index, i, node, taken)} })} })

(* the fork loop of collectBranches, from fork i on *)
forks(w, iter, sref, branch, index, node, taken, branches, i, result) ==
  IF i >= branches THEN [w |-> w, r |-> result]
  ELSE
    LET forked == [index |-> index, path |-> branch.path,
                   branchedFrom |-> branch.branchedFrom]
    IN The({ forks(m.w, iter, sref, branch, nextForkIndex(m.r, index), node,
                   taken, branches, i + 1, m.r)
             : m \in {The({ [w |-> rec.w, r |-> merge(result, rec.r)]
                            : rec \in {collectBranches(w, iter, sref, forked,
                                                       index, i, node, taken)} })} })

(* ------------------------------------------------------------------ *)
(* Flow state operations (iterator.ts)                                 *)
(* ------------------------------------------------------------------ *)
RECURSIVE maxIndexFrom(_, _)
maxIndexFrom(bs, i) ==
  IF i > Len(bs) THEN -1
  ELSE LET m == maxIndexFrom(bs, i + 1)
       IN IF bs[i].index > m THEN bs[i].index ELSE m

(* Math.max over the branch indices, -1 for an empty list *)
maxBranchIndex(bs) == IF Len(bs) = 0 THEN -1 ELSE maxIndexFrom(bs, 1)

(* renumbered gone wrong: the appended branches keep their indices *)
renumberedAsCollected(bs, maxIndex) == bs

(* branches appended behind a list whose highest index is maxIndex *)
renumbered(bs, maxIndex) ==
  [i \in 1..Len(bs) |-> [bs[i] EXCEPT !.index = @ + maxIndex + 1]]

(* Object.assign(result, collection): only the keys the collection has *)
assignCollection(w, result, r) ==
  LET a == IF r.hasBranches THEN AllocBranches(w, r.branches)
           ELSE [w |-> w, ref |-> result.branches]
  IN [w |-> a.w,
      state |-> [result EXCEPT
                   !.branches = a.ref,
                   !.pages = IF r.hasPages THEN r.pages ELSE @,
                   !.terminalBranch = IF r.hasTerminal THEN r.terminalBranch ELSE @]]

(* the iterator refreshBranches starts from: the state, shadowing *)
primaryIter(state) ==
  [id |-> state.id, last |-> state.last, variables |-> state.variables,
   shadowing |-> TRUE]

(* { ...result, ...page }: no shadowing key, so the walk is not shadowed *)
pageIter(result, page) ==
  [id |-> page.id, last |-> page.last, variables |-> result.variables,
   shadowing |-> FALSE]

(* result.branches.push(...): written into the array result.branches names *)
pushBranches(w, ref, bs) == [w EXCEPT !.brs[ref] = @ \o bs]

(* what one merged page appends to the result: its id, its pages, and *)
(* its branches renumbered past the highest index of result.branches   *)
appendPage(nr, result, page) ==
  [w |-> IF nr.r.hasBranches
           THEN pushBranches(nr.w, result.branches,
                             renumbered(nr.r.branches,
                                        maxBranchIndex(nr.w.brs[result.branches])))
           ELSE nr.w,
   state |-> [result EXCEPT
                !.pages = (@ \o <<page.id>>)
                          \o (IF nr.r.hasPages THEN nr.r.pages ELSE <<>>)]]

RECURSIVE mergedPages(_, _, _, _)
mergedPages(w, result, pages, i) ==
  IF i > Len(pages) THEN [w |-> w, state |-> result]
  ELSE
    The({ mergedPages(a.w, a.state, pages, i + 1)
          : a \in {appendPage(
                     collectBranches(w, pageIter(result, pages[i]),
                                     result.visits, NoBranch, 0, -1, Null, <<>>),
                     result, pages[i])} })

(* refreshBranches gone wrong: the position is not put into pages *)
refreshWithoutPosition(w, state) ==
  The({ mergedPages(a.w, a.state, state.mergePages, 1)
        : a \in {The({ assignCollection(c.w, [state EXCEPT !.pages = <<>>], c.r)
                       : c \in {collectBranches(w, primaryIter(state),
                                                state.visits, NoBranch, 0, -1,
                                                Null, <<>>)} })} })

refreshBranches(w, state) ==
  The({ mergedPages(a.w,
                    [a.state EXCEPT
                       !.pages = IF state.id # Null THEN <<state.id>> \o @ ELSE @],
                    state.mergePages, 1)
        : a \in {The({ assignCollection(c.w, [state EXCEPT !.pages = <<>>], c.r)
                       : c \in {collectBranches(w, primaryIter(state),
                                                state.visits, NoBranch, 0, -1,
                                                Null, <<>>)} })} })

(* markVisited gone wrong: the visit is stamped with the turn after *)
markVisitedNextTurn(vs, id, turn) ==
  [counts |-> Put(vs.counts, id, Get(vs.counts, id, 0) + 1),
   indicies |-> Put(vs.indicies, id, turn + 1)]

(* one visit of id at the given turn, written into the visit set *)
markVisited(vs, id, turn) ==
  [counts |-> Put(vs.counts, id, Get(vs.counts, id, 0) + 1),
   indicies |-> Put(vs.indicies, id, turn)]

RECURSIVE markAll(_, _, _, _)
markAll(vs, ids, i, turn) ==
  IF i > Len(ids) THEN vs
  ELSE markAll(markVisited(vs, ids[i], turn), ids, i + 1, turn)

(* commitStore gone wrong: the committed steps write the input's store *)
commitStoreInPlace(w, step, vref, hasCloned) ==
  [w |-> w, ref |-> vref, hasCloned |-> hasCloned]

(* the store a committed step runs on: cloned once, at the first writer *)
commitStore(w, step, vref, hasCloned) ==
  IF ~hasCloned /\ needsShadow(step)
    THEN LET c == cloneVariableStore(w, vref)
         IN [w |-> c.w, ref |-> c.ref, hasCloned |-> TRUE]
    ELSE [w |-> w, ref |-> vref, hasCloned |-> hasCloned]

(* the visit set executeFlowBranch writes: a copy of the state's *)
copyVisits(w, sref) == AllocVisits(w, w.vis[sref])

RECURSIVE executeSteps(_, _, _, _, _, _, _)
executeSteps(w, state, path, i, vref, sref, hasCloned) ==
  IF i > Len(path) THEN [w |-> w, variables |-> vref, visits |-> sref]
  ELSE
    LET step == path[i]
        visited(w2) ==
          [w2 EXCEPT !.vis[sref] =
             markAll(markVisited(@, step, state.turn), forcedVisits(step), 1,
                     state.turn)]
    IN The({ executeSteps(
               visited(OnNodeExecution(execute(c.w, step, c.ref, sref), step,
                                       state.variables, state.visits)),
               state, path, i + 1, c.ref, sref, c.hasCloned)
             : c \in {commitStore(w, step, vref, hasCloned)} })

executeFlowBranch(w, state, branch) ==
  LET v == copyVisits(w, state.visits)
  IN executeSteps(v.w, state, branch.path, 1, state.variables, v.ref, FALSE)

(* findBranch gone wrong: an index no branch carries finds the first *)
findBranchOrFirst(bs, branchIndex) ==
  IF \E i \in 1..Len(bs) : bs[i].index = branchIndex
    THEN bs[CHOOSE i \in 1..Len(bs) : bs[i].index = branchIndex]
    ELSE IF Len(bs) > 0 THEN bs[1] ELSE NoBranch

(* state.branches.find(x => x.index === branchIndex) *)
findBranch(bs, branchIndex) ==
  IF \E i \in 1..Len(bs) : bs[i].index = branchIndex
    THEN bs[CHOOSE i \in 1..Len(bs) :
              /\ bs[i].index = branchIndex
              /\ \A j \in 1..(i - 1) : bs[j].index # branchIndex]
    ELSE NoBranch

(* lastOf gone wrong: the node left behind is always the old position *)
lastOfPosition(state, path) == getObject(state.id)

(* the id of the node left behind by following the path *)
lastOf(state, path) ==
  IF Len(path) > 1 THEN path[Len(path) - 1] ELSE getObject(state.id)

(* arrivedState gone wrong: the position is the first step of the path *)
arrivedAtFirstStep(w, state, path, vref, sref) ==
  LET b == AllocBranches(w, <<>>)
  IN [w |-> b.w,
      state |-> [id |-> path[1], last |-> lastOf(state, path),
                 pages |-> <<path[1]>>, mergePages |-> <<>>,
                 branches |-> b.ref, variables |-> vref, visits |-> sref,
                 turn |-> state.turn + 1, terminalBranch |-> NoBranch]]

(* the state advance builds before refreshing its branches *)
arrivedState(w, state, path, vref, sref) ==
  LET b == AllocBranches(w, <<>>)
  IN [w |-> b.w,
      state |-> [id |-> path[Len(path)], last |-> lastOf(state, path),
                 pages |-> <<path[Len(path)]>>, mergePages |-> <<>>,
                 branches |-> b.ref, variables |-> vref, visits |-> sref,
                 turn |-> state.turn + 1, terminalBranch |-> NoBranch]]

(* the skip-through test gone wrong: a dead end is skipped through too *)
skipsAtDeadEnds(w, state, curr) ==
  policy.has /\ customStopHandler(curr) = AdvanceStop

(* the skip-through test of advanceGameFlowState *)
skipsThrough(w, state, curr) ==
  /\ Len(w.brs[state.branches]) > 0
  /\ policy.has
  /\ customStopHandler(curr) = AdvanceStop

RECURSIVE advanceGameFlowState(_, _, _)
advanceGameFlowState(w, state, branchIndex) ==
  IF state.id = Null
    THEN [w |-> w, state |-> state, node |-> Null, skipped |-> FALSE]
  ELSE
    LET branch == findBranch(w.brs[state.branches], branchIndex)
        curr == branch.path[Len(branch.path)]
    IN
    IF branch = NoBranch
      THEN [w |-> w, state |-> state, node |-> Null, skipped |-> FALSE]
    ELSE
      The({ IF skipsThrough(r.w, r.state, curr)
              THEN [advanceGameFlowState(r.w, r.state, 0) EXCEPT !.skipped = TRUE]
              ELSE [w |-> r.w, state |-> r.state, node |-> curr,
                    skipped |-> FALSE]
            : r \in {The({ refreshBranches(a.w, a.state)
                           : a \in {The({ arrivedState(ex.w, state, branch.path,
                                                       ex.variables, ex.visits)
                                          : ex \in {executeFlowBranch(
                                                      w, state, branch)} })} })} })

(* nullGameFlowState gone wrong: a turn is counted as for a stop *)
nullStateAfterATurn(w) ==
  LET v == AllocVars(w, EmptyStore)
      s == AllocVisits(v.w, EmptyVisitSet)
      b == AllocBranches(s.w, <<>>)
  IN [w |-> b.w,
      state |-> [id |-> Null, last |-> Null, pages |-> <<>>, mergePages |-> <<>>,
                 variables |-> v.ref, visits |-> s.ref, branches |-> b.ref,
                 turn |-> 1, terminalBranch |-> NoBranch]]

(* NullGameFlowState *)
nullGameFlowState(w) ==
  LET v == AllocVars(w, EmptyStore)
      s == AllocVisits(v.w, EmptyVisitSet)
      b == AllocBranches(s.w, <<>>)
  IN [w |-> b.w,
      state |-> [id |-> Null, last |-> Null, pages |-> <<>>, mergePages |-> <<>>,
                 variables |-> v.ref, visits |-> s.ref, branches |-> b.ref,
                 turn |-> 0, terminalBranch |-> NoBranch]]

(* the initial state of startup: existing globals, or fresh ones *)
initialState(w, start, hasExisting, existing) ==
  LET v == IF hasExisting THEN [w |-> w, ref |-> existing.variables]
           ELSE AllocVars(w, newVariableStore)
      s == IF hasExisting THEN [w |-> v.w, ref |-> existing.visits]
           ELSE AllocVisits(v.w, EmptyVisitSet)
      b == AllocBranches(s.w, <<>>)
  IN [w |-> b.w,
      state |-> [id |-> start, last |-> Null, pages |-> <<start>>,
                 mergePages |-> <<>>, variables |-> v.ref, visits |-> s.ref,
                 branches |-> b.ref,
                 turn |-> IF hasExisting THEN existing.turn ELSE 0,
                 terminalBranch |-> NoBranch]]

(* the start node marked as visited, in a fresh visit set *)
visitStart(w, state, start) ==
  LET a == AllocVisits(w, markVisited(w.vis[state.visits], start, state.turn))
  IN [w |-> a.w, state |-> [state EXCEPT !.visits = a.ref]]

(* the refreshed initial state of startup *)
refreshedInitial(w, start, hasExisting, existing) ==
  The({ refreshBranches(i0.w, i0.state)
        : i0 \in {initialState(w, start, hasExisting, existing)} })

(* the state startup has once the start node is executed and visited *)
startedState(w, start, hasExisting, existing) ==
  The({ visitStart(
          OnNodeExecution(
            execute(r.w, start, r.state.variables, r.state.visits), start,
            r.state.variables, r.state.visits),
          r.state, start)
        : r \in {refreshedInitial(w, start, hasExisting, existing)} })

startupGameFlowState(w, start, hasExisting, existing) ==
  IF getObject(start) = Null
    THEN The({ [w |-> z.w, state |-> z.state, node |-> Null, skipped |-> FALSE]
               : z \in {The({ nullGameFlowState(r.w)
                              : r \in {refreshedInitial(w, start, hasExisting,
                                                        existing)} })} })
    ELSE The({ IF shouldStopAt(start)
                 THEN [w |-> v.w, state |-> [v.state EXCEPT !.turn = @ + 1],
                       node |-> start, skipped |-> FALSE]
                 ELSE advanceGameFlowState(v.w, v.state, 0)
               : v \in {startedState(w, start, hasExisting, existing)} })

(* mergedState gone wrong: the merged state reports the position of    *)
(* the thread it started                                               *)
mergedAtNewPosition(b, state, new) ==
  [w |-> b.w,
   state |-> [new EXCEPT
                !.pages = state.pages \o new.pages,
                !.mergePages = state.mergePages \o
                   (IF new.id # Null
                      THEN <<[id |-> new.id, last |-> new.last]>> ELSE <<>>),
                !.branches = b.ref]]

(* the state mergeGameFlowState returns: the started state spread    *)
(* under the input's position, pages, merged pages and branches        *)
mergedState(b, state, new) ==
  [w |-> b.w,
   state |-> [new EXCEPT
                !.id = state.id,
                !.last = state.last,
                !.pages = state.pages \o new.pages,
                !.mergePages = state.mergePages \o
                   (IF new.id # Null
                      THEN <<[id |-> new.id, last |-> new.last]>> ELSE <<>>),
                !.branches = b.ref]]

mergeGameFlowState(w, state, start) ==
  The({ mergedState(
          AllocBranches(st.w,
                        st.w.brs[state.branches]
                        \o renumbered(st.w.brs[st.state.branches],
                                      maxBranchIndex(st.w.brs[state.branches]))),
          state, st.state)
        : st \in {startupGameFlowState(w, start, TRUE, state)} })

(* SplitGlobals: the globals of a result, apart from the slim state *)
SplitGlobals(r) ==
  [w |-> r.w,
   globals |-> [variables |-> r.state.variables, visits |-> r.state.visits,
                turn |-> r.state.turn],
   state |-> [id |-> r.state.id, last |-> r.state.last,
              pages |-> r.state.pages, mergePages |-> r.state.mergePages,
              branches |-> r.state.branches,
              terminalBranch |-> r.state.terminalBranch],
   node |-> r.node]

(* startupGameFlowStateWithGlobals: the globals carried in are the     *)
(* existing state of startup                                           *)
startupGameFlowStateWithGlobals(w, globals, start) ==
  The({ SplitGlobals(r)
        : r \in {startupGameFlowState(w, start, TRUE, globals)} })

(* cleared gone wrong: the fallback terminal branch is kept *)
clearedKeepingFallback(w, state) ==
  LET b == AllocBranches(w, <<>>)
  IN [w |-> b.w,
      state |-> [state EXCEPT !.id = Null, !.last = Null, !.branches = b.ref,
                              !.mergePages = <<>>, !.pages = <<>>]]

(* the cleared state completeFlow returns *)
cleared(w, state) ==
  LET b == AllocBranches(w, <<>>)
  IN [w |-> b.w,
      state |-> [state EXCEPT !.id = Null, !.last = Null, !.branches = b.ref,
                              !.terminalBranch = NoBranch, !.mergePages = <<>>,
                              !.pages = <<>>]]

(* completeFlow gone wrong: the fallback is run whatever is cached *)
completeFlowRunsAlways(w, state) ==
  The({ cleared(ex.w, [state EXCEPT !.variables = ex.variables,
                                    !.visits = ex.visits])
        : ex \in {executeFlowBranch(w, state, state.terminalBranch)} })

completeFlow(w, state) ==
  IF Len(w.brs[state.branches]) > 0 \/ state.terminalBranch = NoBranch
    THEN cleared(w, state)
    ELSE The({ cleared(ex.w, [state EXCEPT !.variables = ex.variables,
                                           !.visits = ex.visits])
               : ex \in {executeFlowBranch(w, state, state.terminalBranch)} })

(* ------------------------------------------------------------------ *)
(* The caller: it holds the state the last call returned (cur);        *)
(* objects that state does not name are garbage                        *)
(* ------------------------------------------------------------------ *)
World ==
  [vars |-> heapVars, vis |-> heapVisits, brs |-> heapBranches,
   queue |-> actionQueue, queueOn |-> queueOn, err |-> FALSE, calls |-> <<>>,
   emitted |-> <<>>]

(* a state with every reference replaced by the object it names *)
Deep(w, s) ==
  [s EXCEPT !.variables = w.vars[@], !.visits = w.vis[@], !.branches = w.brs[@]]


PolicyNodes == {"A", "F"}
(* no handler configured, or a handler that answers for one node and   *)
(* returns undefined for every other                                   *)
Policies ==
  {[has |-> FALSE, answer |-> EmptyMap]}
  \cup {[has |-> TRUE, answer |-> [x \in {n} |-> t]] :
          n \in PolicyNodes, t \in CustomStopTypes \ {NormalStop}}

Values == {0, 1, 2}

(* nativeFunctions.ts registers the built-ins when it is loaded *)
NativeNames == {"getProp", "getObj", "print", "random", "once", "limit",
                "visits", "visited"}
NativeRegistrations ==
  [name \in NativeNames |->
     CASE name = "once" -> OnceHandler
       [] name = "limit" -> LimitHandler
       [] OTHER -> NativeHandler(name)]

(* what the host of the flow registered: a generator script function,  *)
(* two handlers for the feature Pause, one of them a generator, a      *)
(* handler for the template PauseHub and one under the type name       *)
(* DialogueFragment                                                    *)
HostFunctions == NativeRegistrations @@ ("notify" :> NotifyHandler)
HostFeatureHandlers ==
  "Pause" :> <<Generator("onPause", <<"feature">>), Handler("countPause")>>
HostTemplateHandlers ==
  ("PauseHub" :> <<Handler("onPauseHub")>>)
  @@ ("DialogueFragment" :> <<Handler("onLine")>>)

(* no middleware pass in flight, nothing dispatched or evaluated *)
NoPass ==
  /\ frames = <<>>
  /\ passes = <<>>
  /\ dispatched = <<>>
  /\ yieldLog = <<>>
  /\ finalizeAction = FALSE
  /\ evaluated = Null

(* the host's registrations are made *)
HostRegistered ==
  /\ registeredFunctions = HostFunctions
  /\ featureHandlers = HostFeatureHandlers
  /\ templateHandlers = HostTemplateHandlers

Init ==
  /\ HostRegistered
  /\ NoPass
  /\ db = ExportedGraph
  /\ policy \in Policies
  /\ heapVars = <<EmptyStore>>
  /\ heapVisits = <<EmptyVisitSet>>
  /\ heapBranches = << <<>> >>
  /\ cur = [id |-> Null, last |-> Null, pages |-> <<>>, mergePages |-> <<>>,
            variables |-> 1, visits |-> 1, branches |-> 1, turn |-> 0,
            terminalBranch |-> NoBranch]
  /\ actionQueue = <<>>
  /\ queueOn = FALSE
  /\ op = [name |-> "init", start |-> Null, index |-> -1, skipped |-> FALSE]

(* the caller keeps the input and the result of the call *)
Return(name, start, index, res) ==
  /\ ~res.w.err
  /\ cur' = [res.state EXCEPT !.variables = 1, !.visits = 1, !.branches = 1]
  /\ heapVars' = <<res.w.vars[res.state.variables]>>
  /\ heapVisits' = <<res.w.vis[res.state.visits]>>
  /\ heapBranches' = <<res.w.brs[res.state.branches]>>
  /\ actionQueue' = res.w.queue
  /\ op' = [name |-> name, start |-> start, index |-> index,
            skipped |-> res.skipped]
  /\ UNCHANGED <<db, queueOn, policy, registryVars, passVars, evaluated>>

Bounded == cur.turn < MaxTurn /\ Len(actionQueue) < MaxQueue
Quiet == Len(actionQueue) < MaxQueue
Fresh(start) == Get(heapVisits[cur.visits].counts, start, 0) < MaxVisits

Plain(r) == [w |-> r.w, state |-> r.state, skipped |-> FALSE]

Startup ==
  \E start \in StartIds :
    /\ Bounded
    /\ Return("Startup", start, -1,
              startupGameFlowState(World, start, FALSE, cur))

StartupExisting ==
  \E start \in StartIds :
    /\ Bounded
    /\ Fresh(start)
    /\ Return("StartupExisting", start, -1,
              startupGameFlowState(World, start, TRUE, cur))

AdvanceIndices ==
  {heapBranches[cur.branches][i].index : i \in 1..Len(heapBranches[cur.branches])}
  \cup {maxBranchIndex(heapBranches[cur.branches]) + 1}

Advance ==
  \E i \in AdvanceIndices :
    /\ Bounded
    /\ Return("Advance", Null, i, advanceGameFlowState(World, cur, i))

Merge ==
  \E start \in StartIds :
    /\ Bounded
    /\ Fresh(start)
    /\ Len(cur.mergePages) < MaxMerged
    /\ Return("Merge", start, -1, Plain(mergeGameFlowState(World, cur, start)))

RefreshBranches ==
  /\ Quiet
  /\ Len(heapBranches[cur.branches]) < MaxBranches
  /\ Return("Refresh", Null, -1, Plain(refreshBranches(World, cur)))

CompleteFlow ==
  /\ Quiet
  /\ Return("Complete", Null, -1, Plain(completeFlow(World, cur)))

(* the host replaces the variables of the state it holds *)
MutateVariables ==
  \E k \in Values :
    /\ heapVars[cur.variables].ns
    /\ heapVars[cur.variables].X # k
    /\ LET a == AllocVars(World, [ns |-> TRUE, X |-> k])
       IN Return("Mutate", Null, k,
                 [w |-> a.w, state |-> [cur EXCEPT !.variables = a.ref],
                  skipped |-> FALSE])

(* createScriptDispatchMiddleware: a pass primes the queue, runs the   *)
(* reducers, then clears the queue and dispatches what it held         *)
BeginPass ==
  /\ ~queueOn
  /\ queueOn' = TRUE
  /\ actionQueue' = <<>>
  /\ UNCHANGED <<db, cur, heapVars, heapVisits, heapBranches, policy, op,
                 registryVars, passVars, evaluated>>

EndPass ==
  /\ queueOn
  /\ queueOn' = FALSE
  /\ actionQueue' = <<>>
  /\ op' = [name |-> "EndPass", start |-> Null, index |-> -1, skipped |-> FALSE]
  /\ UNCHANGED <<db, cur, heapVars, heapVisits, heapBranches, policy,
                 registryVars, passVars, evaluated>>

Next ==
  \/ Startup
  \/ StartupExisting
  \/ Advance
  \/ Merge
  \/ RefreshBranches
  \/ CompleteFlow
  \/ MutateVariables
  \/ BeginPass
  \/ EndPass

Spec == Init /\ [][Next]_vars

(* a second export: the walk stops, by their feature, on an            *)
(* instruction that carries a script and on a fragment that forks; the *)
(* first fork of So writes what the guard of its last fork reads       *)
ScriptedStopGraph ==
     ("S"  :> ObjNode("DialogueFragment", <<"Si">>, <<"So">>, NoScript, {}, 0, Null, <<>>))
  @@ ("Si" :> PinNode("InputPin", "S", NoScript, <<>>))
  @@ ("So" :> PinNode("OutputPin", "S", SetX(1),
                      <<Conn("Q", "Qi"), Conn("A", "Ai"), Conn("N", "Ni"),
                        Conn("R", "Ri")>>))
  @@ ("Ni" :> PinNode("InputPin", "N", NoScript, <<>>))
  @@ ("N"  :> ObjNode("Instruction", <<"Ni">>, <<"No">>, SetX(2), {}, 0, Null, <<>>))
  @@ ("No" :> PinNode("OutputPin", "N", NoScript, <<Conn("G", "Gi")>>))
  @@ ("Ri" :> PinNode("InputPin", "R", XAtLeast(2), <<>>))
  @@ ("R"  :> ObjNode("DialogueFragment", <<"Ri">>, <<>>, NoScript, {}, 4, Null, <<>>))
  @@ ("Ai" :> PinNode("InputPin", "A", NoScript,
                      <<Conn("G", "Gi"), Conn("E", "Ei")>>))
  @@ ("A"  :> Templated(ObjNode("FlowFragment", <<"Ai">>, <<>>, NoScript,
                                {"Pause"}, 3, Null, <<>>), "PauseFragment"))
  @@ ("Qi" :> PinNode("InputPin", "Q", NoScript, <<>>))
  @@ ("Q"  :> Templated(ObjNode("Instruction", <<"Qi">>, <<"Qo">>, SetX(2),
                                {"Pause"}, 1, Null, <<>>), "PauseInstruction"))
  @@ ("Qo" :> PinNode("OutputPin", "Q", NoScript,
                      <<Conn("G", "Gi"), Conn("E", "Ei")>>))
  @@ ("Gi" :> PinNode("InputPin", "G", NoScript, <<>>))
  @@ ("G"  :> ObjNode("DialogueFragment", <<"Gi">>, <<>>, NoScript, {}, 2, Null, <<>>))
  @@ ("Ei" :> PinNode("InputPin", "E", NoScript, <<>>))
  @@ ("E"  :> ObjNode("DialogueFragment", <<"Ei">>, <<>>, NoScript, {}, 2, Null, <<>>))
  @@ ("M"  :> ObjNode("Instruction", <<>>, <<"Mo">>, SetX(1), {}, 3, Null, <<>>))
  @@ ("Mo" :> PinNode("OutputPin", "M", NoScript, <<Conn("Q", "Qi")>>))

(* the flow engine over either export *)
InitGraphs ==
  /\ HostRegistered
  /\ NoPass
  /\ db \in {ExportedGraph, ScriptedStopGraph}
  /\ policy \in {p \in Policies : DOMAIN p.answer \subseteq DOMAIN db}
  /\ heapVars = <<EmptyStore>>
  /\ heapVisits = <<EmptyVisitSet>>
  /\ heapBranches = << <<>> >>
  /\ cur = [id |-> Null, last |-> Null, pages |-> <<>>, mergePages |-> <<>>,
            variables |-> 1, visits |-> 1, branches |-> 1, turn |-> 0,
            terminalBranch |-> NoBranch]
  /\ actionQueue = <<>>
  /\ queueOn = FALSE
  /\ op = [name |-> "init", start |-> Null, index |-> -1, skipped |-> FALSE]

SpecGraphs == InitGraphs /\ [][Next]_vars

(* ------------------------------------------------------------------ *)
(* The script dispatch middleware, step by step (script.ts)            *)
(* ------------------------------------------------------------------ *)
(* the flow state is as constructed and stays so *)
flowVars == <<db, cur, heapVars, heapVisits, heapBranches, policy, op>>

(* one invocation of the middleware: its wrapped action, the array its *)
(* local queue names once the global no longer names it (detached: a   *)
(* later pass has reassigned the global meanwhile), and where it       *)
(* stands                                                              *)
Frame(id, action) ==
  [id |-> id, action |-> action, pc |-> "next", queue |-> <<>>, i |-> 0,
   detached |-> FALSE]

HostAction(id) == [type |-> "host", pass |-> id, seq |-> 0]
YieldedAction(id, seq) == [type |-> "yield", pass |-> id, seq |-> seq]
(* finalizeAction(action) *)
finalize(action) == [type |-> "finalize", pass |-> action.pass, seq |-> action.seq]

Top == frames[Len(frames)]
CurrentPass == IF frames = <<>> THEN 0 ELSE Top.id

InitPass ==
  /\ HostRegistered
  /\ frames = <<>>
  /\ passes = <<>>
  /\ dispatched = <<>>
  /\ yieldLog = <<>>
  /\ finalizeAction \in BOOLEAN
  /\ evaluated = Null
  /\ db = ExportedGraph
  /\ policy = [has |-> FALSE, answer |-> EmptyMap]
  /\ heapVars = <<EmptyStore>>
  /\ heapVisits = <<EmptyVisitSet>>
  /\ heapBranches = << <<>> >>
  /\ cur = [id |-> Null, last |-> Null, pages |-> <<>>, mergePages |-> <<>>,
            variables |-> 1, visits |-> 1, branches |-> 1, turn |-> 0,
            terminalBranch |-> NoBranch]
  /\ actionQueue = <<>>
  /\ queueOn = FALSE
  /\ op = [name |-> "init", start |-> Null, index |-> -1, skipped |-> FALSE]

(* queue = []; actionQueue = queue: the middleware is entered with an  *)
(* action, from the host or from a dispatch of its own                 *)
enter(resumed, action) ==
  /\ frames' = Append(resumed, Frame(Len(passes) + 1, action))
  /\ passes' = Append(passes, action)
  /\ actionQueue' = <<>>
  /\ queueOn' = TRUE

(* the host dispatches an action while no pass is in flight *)
HostDispatch ==
  /\ frames = <<>>
  /\ Len(passes) < MaxPasses
  /\ enter(frames, HostAction(Len(passes) + 1))
  /\ UNCHANGED <<flowVars, registryVars, dispatched, yieldLog, finalizeAction,
                 evaluated>>

(* a script function or handler that is a generator runs and yields,   *)
(* inside next(action) of the pass in flight or while no pass is: the  *)
(* reducers do not dispatch, so no pass begins inside next(action)     *)
RunGenerator ==
  \E n \in 1..MaxYields, shadowing \in BOOLEAN :
    /\ IF frames = <<>> THEN TRUE ELSE Top.pc = "next"
    /\ Len(yieldLog) + n <= MaxYieldLog
    /\ LET acts == [k \in 1..n |-> YieldedAction(CurrentPass, Len(yieldLog) + k)]
       IN /\ actionQueue' = queueGeneratedActions(World, acts, shadowing).queue
          /\ yieldLog' = yieldLog \o
               [k \in 1..n |-> [action |-> acts[k], pass |-> CurrentPass,
                                after |-> Len(passes),
                                shadowing |-> shadowing]]
    /\ UNCHANGED <<flowVars, registryVars, frames, passes, dispatched, queueOn,
                   finalizeAction, evaluated>>

(* next(action) has returned: actionQueue = undefined; the local queue *)
(* still names the array                                               *)
ClearQueue ==
  /\ frames # <<>>
  /\ Top.pc = "next"
  /\ frames' = [frames EXCEPT ![Len(frames)] =
                  [@ EXCEPT !.pc = "flush",
                            !.queue = IF Top.detached THEN Top.queue ELSE actionQueue,
                            !.i = 1]]
  /\ actionQueue' = <<>>
  /\ queueOn' = FALSE
  /\ UNCHANGED <<flowVars, registryVars, passes, dispatched, yieldLog,
                 finalizeAction, evaluated>>

(* storeApi.dispatch(action): the store is asked to dispatch, and the  *)
(* action enters the middleware again; past the depth bound the inner  *)
(* pass is one whose reducers run no script                            *)
storeDispatch(by, action, resumed) ==
  /\ dispatched' = Append(dispatched, [by |-> by, action |-> action])
  /\ IF Len(frames) < MaxDepth /\ Len(passes) < MaxPasses
       THEN enter(resumed, action)
       ELSE /\ frames' = resumed
            /\ UNCHANGED <<passes, actionQueue, queueOn>>

(* for (const action of queue) storeApi.dispatch(action) *)
FlushOne ==
  /\ frames # <<>>
  /\ Top.pc = "flush"
  /\ Top.i <= Len(Top.queue)
  /\ storeDispatch(Top.id, Top.queue[Top.i],
                   [frames EXCEPT ![Len(frames)].i = @ + 1])
  /\ UNCHANGED <<flowVars, registryVars, yieldLog, finalizeAction, evaluated>>

(* if (queue.length > 0 && finalizeAction) dispatch finalizeAction(action) *)
Finalize ==
  /\ frames # <<>>
  /\ Top.pc = "flush"
  /\ Top.i > Len(Top.queue)
  /\ IF Len(Top.queue) > 0 /\ finalizeAction
       THEN storeDispatch(Top.id, finalize(Top.action),
                          [frames EXCEPT ![Len(frames)].pc = "return"])
       ELSE /\ frames' = [frames EXCEPT ![Len(frames)].pc = "return"]
            /\ UNCHANGED <<passes, dispatched, actionQueue, queueOn>>
  /\ UNCHANGED <<flowVars, registryVars, yieldLog, finalizeAction, evaluated>>

(* return result *)
ReturnResult ==
  /\ frames # <<>>
  /\ Top.pc = "return"
  /\ frames' = SubSeq(frames, 1, Len(frames) - 1)
  /\ UNCHANGED <<flowVars, registryVars, passes, dispatched, yieldLog,
                 actionQueue, queueOn, finalizeAction, evaluated>>

NextPass ==
  \/ HostDispatch
  \/ RunGenerator
  \/ ClearQueue
  \/ FlushOne
  \/ Finalize
  \/ ReturnResult

SpecPass == InitPass /\ [][NextPass]_vars

NestedAction(id) == [type |-> "nested", pass |-> id, seq |-> 0]

(* inside next(action) of the pass in flight, a middleware further     *)
(* down the chain or a store listener calls dispatch: the action       *)
(* enters the middleware again, which assigns the global a new array;  *)
(* the outer pass's local queue keeps naming its own                   *)
NestedDispatch ==
  /\ frames # <<>>
  /\ Top.pc = "next"
  /\ Len(frames) < MaxDepth
  /\ Len(passes) < MaxPasses
  /\ enter([frames EXCEPT ![Len(frames)] =
              [@ EXCEPT !.queue = IF Top.detached THEN Top.queue ELSE actionQueue,
                        !.detached = TRUE]],
           NestedAction(Top.id))
  /\ UNCHANGED <<flowVars, registryVars, dispatched, yieldLog, finalizeAction,
                 evaluated>>

NextNested ==
  \/ HostDispatch
  \/ NestedDispatch
  \/ RunGenerator
  \/ ClearQueue
  \/ FlushOne
  \/ Finalize
  \/ ReturnResult

(* the middleware with passes that nest inside next(action) too *)
SpecNested == InitPass /\ [][NextNested]_vars

(* ------------------------------------------------------------------ *)
(* The registries and the script evaluator on their own: the host      *)
(* registers and clears script functions and execution handlers, and   *)
(* guards of input pins are evaluated against a store and a ledger     *)
(* ------------------------------------------------------------------ *)
MaxHandlers == 2

(* the names ClearRegisteredScriptFunctions never deletes *)
nativeScriptFunctions == {"random", "getProp", "setProp", "print", "getObj"}

(* RegisterScriptFunction gone wrong: a bound name keeps its function *)
registerUnlessBound(registry, name, func) ==
  IF name \in DOMAIN registry THEN registry ELSE Put(registry, name, func)

(* registeredFunctions[name] = func *)
RegisterScriptFunction(registry, name, func) == Put(registry, name, func)

ClearRegisteredScriptFunctions(registry) ==
  [key \in {k \in DOMAIN registry : k \in nativeScriptFunctions} |-> registry[key]]

(* featureHandlers.set(name, [handler]), or push on the list there is *)
RegisterFeatureExecutionHandler(handlers, name, handler) ==
  IF name \notin DOMAIN handlers THEN Put(handlers, name, <<handler>>)
  ELSE [handlers EXCEPT ![name] = Append(@, handler)]

RegisterTemplateExecutionHandler(handlers, name, handler) ==
  IF name \notin DOMAIN handlers THEN Put(handlers, name, <<handler>>)
  ELSE [handlers EXCEPT ![name] = Append(@, handler)]

ClearRegisteredFeatureHandlers == EmptyMap
ClearRegisteredTemplateHandlers == EmptyMap

(* the guards of the input pins of the node N: one pin per guard *)
GuardOf ==
     ("Pn" :> NoScript)
  @@ ("Pc" :> Comment)
  @@ ("Pg" :> XAtLeast(1))
  @@ ("Px" :> XValue)
  @@ ("P0" :> Literal(0))
  @@ ("P2" :> Literal(2))
  @@ ("Po" :> Once)
  @@ ("Py" :> Notify)
  @@ ("Pr" :> Call("random", 0))
  @@ ("Lm" :> Limit(-1))
  @@ ("L0" :> Limit(0))
  @@ ("L1" :> Limit(1))
  @@ ("L2" :> Limit(2))
  @@ ("L3" :> Limit(3))

GuardPins == DOMAIN GuardOf

(* a hub of template PauseHub with the feature Pause, and its pins *)
ScriptGraph ==
  [id \in GuardPins \cup {"N"} |->
     IF id = "N"
       THEN Templated(ObjNode("Hub", <<"Pn">>, <<>>, NoScript, {"Pause"}, 0,
                              Null, <<>>), "PauseHub")
       ELSE PinNode("InputPin", "N", GuardOf[id], <<>>)]

(* the ledgers a guard is evaluated against: no count for any pin, or  *)
(* the same count for every pin                                        *)
Ledgers ==
  {EmptyVisitSet}
  \cup {[counts |-> [p \in GuardPins |-> c], indicies |-> [p \in GuardPins |-> 0]]
        : c \in 0..MaxVisits}

(* what the host registers *)
FunctionNames == {"once", "random"}
FunctionBodies == {OnceHandler, HostFunction(1)}
HandlerIds == {"first", "second"}
NoFunction == [impl |-> "none", returns |-> 0]

(* what no registration and no evaluation of a guard changes *)
scriptVars ==
  <<db, cur, heapVars, heapVisits, heapBranches, policy, actionQueue, queueOn>>

InitScript ==
  /\ registeredFunctions = NativeRegistrations
  /\ featureHandlers = EmptyMap
  /\ templateHandlers = EmptyMap
  /\ NoPass
  /\ db = ScriptGraph
  /\ policy = [has |-> FALSE, answer |-> EmptyMap]
  /\ heapVars \in {<<[ns |-> TRUE, X |-> x]>> : x \in Values}
  /\ heapVisits \in {<<v>> : v \in Ledgers}
  /\ heapBranches = << <<>> >>
  /\ cur = [id |-> "N", last |-> Null, pages |-> <<"N">>, mergePages |-> <<>>,
            variables |-> 1, visits |-> 1, branches |-> 1, turn |-> 0,
            terminalBranch |-> NoBranch]
  /\ actionQueue = <<>>
  /\ queueOn = FALSE
  /\ op = [name |-> "init", key |-> Null, func |-> NoFunction]

(* how many execution handlers are registered *)
Registered ==
  Len(Get(featureHandlers, "Pause", <<>>)) + Len(Get(templateHandlers, "PauseHub", <<>>))

HostRegistersFunction ==
  \E name \in FunctionNames, func \in FunctionBodies :
    /\ registeredFunctions' = RegisterScriptFunction(registeredFunctions, name, func)
    /\ op' = [name |-> "RegisterScriptFunction", key |-> name, func |-> func]
    /\ evaluated' = Null
    /\ UNCHANGED <<scriptVars, featureHandlers, templateHandlers, passVars>>

HostClearsFunctions ==
  /\ registeredFunctions' = ClearRegisteredScriptFunctions(registeredFunctions)
  /\ op' = [name |-> "ClearRegisteredScriptFunctions", key |-> Null,
            func |-> NoFunction]
  /\ evaluated' = Null
  /\ UNCHANGED <<scriptVars, featureHandlers, templateHandlers, passVars>>

HostRegistersFeatureHandler ==
  \E id \in HandlerIds :
    /\ Registered < MaxHandlers
    /\ featureHandlers'
       = RegisterFeatureExecutionHandler(featureHandlers, "Pause", Handler(id))
    /\ op' = [name |-> "RegisterFeatureExecutionHandler", key |-> "Pause",
              func |-> Handler(id)]
    /\ evaluated' = Null
    /\ UNCHANGED <<scriptVars, registeredFunctions, templateHandlers, passVars>>

HostRegistersTemplateHandler ==
  \E id \in HandlerIds :
    /\ Registered < MaxHandlers
    /\ templateHandlers'
       = RegisterTemplateExecutionHandler(templateHandlers, "PauseHub", Handler(id))
    /\ op' = [name |-> "RegisterTemplateExecutionHandler", key |-> "PauseHub",
              func |-> Handler(id)]
    /\ evaluated' = Null
    /\ UNCHANGED <<scriptVars, registeredFunctions, featureHandlers, passVars>>

HostClearsFeatureHandlers ==
  /\ featureHandlers' = ClearRegisteredFeatureHandlers
  /\ op' = [name |-> "ClearRegisteredFeatureHandlers", key |-> Null,
            func |-> NoFunction]
  /\ evaluated' = Null
  /\ UNCHANGED <<scriptVars, registeredFunctions, templateHandlers, passVars>>

HostClearsTemplateHandlers ==
  /\ templateHandlers' = ClearRegisteredTemplateHandlers
  /\ op' = [name |-> "ClearRegisteredTemplateHandlers", key |-> Null,
            func |-> NoFunction]
  /\ evaluated' = Null
  /\ UNCHANGED <<scriptVars, registeredFunctions, featureHandlers, passVars>>

(* the guard of a pin is evaluated as branch collection does: its raw  *)
(* value, whether it raised, and the branches the pin offers           *)
EvaluateGuard ==
  \E pin \in GuardPins :
    /\ evaluated'
       = The({ [pin |-> pin, val |-> raw.val, err |-> raw.w.err,
                n |-> numBranches(World, pin, cur.variables, cur.visits, Null,
                                  TRUE).n, calls |-> <<>>]
               : raw \in {runScriptRaw(World, db[pin].Text, cur.variables,
                                       cur.visits, pin, TRUE, TRUE)} })
    /\ op' = [name |-> "numBranches", key |-> pin, func |-> NoFunction]
    /\ UNCHANGED <<scriptVars, registryVars, passVars>>

(* the node N is executed: its handlers run *)
ExecuteNode ==
  /\ evaluated'
     = [pin |-> "N", val |-> Undefined, err |-> FALSE, n |-> 0,
        calls |-> OnNodeExecution(World, "N", cur.variables, cur.visits).calls]
  /\ op' = [name |-> "OnNodeExecution", key |-> "N", func |-> NoFunction]
  /\ UNCHANGED <<scriptVars, registryVars, passVars>>

NextScript ==
  \/ HostRegistersFunction
  \/ HostClearsFunctions
  \/ HostRegistersFeatureHandler
  \/ HostRegistersTemplateHandler
  \/ HostClearsFeatureHandlers
  \/ HostClearsTemplateHandlers
  \/ EvaluateGuard
  \/ ExecuteNode

SpecScript == InitScript /\ [][NextScript]_vars

(* ------------------------------------------------------------------ *)
(* Properties                                                          *)
(* ------------------------------------------------------------------ *)
(* the cached branch list of the state the caller holds *)
Branches == heapBranches[cur.branches]

(* C1: for every reachable state s and every branch index i,           *)
(* Advance(s, i) leaves the variable store and the visit ledger of s   *)
(* equal to their pre-call values, and a later Advance from s along    *)
(* any branch j returns the state it returns when the first call never *)
(* ran.                                                                *)
C1_AdvanceLeavesInputUntouched ==
  \A i \in AdvanceIndices :
    \A first \in {advanceGameFlowState(World, cur, i)} :
      /\ first.w.vars[cur.variables] = heapVars[cur.variables]
      /\ first.w.vis[cur.visits] = heapVisits[cur.visits]
      /\ \A j \in AdvanceIndices :
           \A later \in {advanceGameFlowState(first.w, cur, j)},
              alone \in {advanceGameFlowState(World, cur, j)} :
             Deep(later.w, later.state) = Deep(alone.w, alone.state)

(* an Advance that follows a branch, writes a variable and counts      *)
(* visits, on copies of its own                                        *)
C1_Witness ==
  \E i \in AdvanceIndices :
    \E r \in {advanceGameFlowState(World, cur, i)} :
      /\ ~r.w.err
      /\ r.w.vars[r.state.variables] # heapVars[cur.variables]
      /\ r.w.vis[r.state.visits] # heapVisits[cur.visits]

(* C2: in every state returned by Startup, Advance, Merge or           *)
(* RefreshBranches, under every stop policy and after every sequence   *)
(* of operations, no two entries of the cached branch list carry the   *)
(* same index.                                                         *)
C2_BranchIndicesUnique ==
  op.name \in {"Startup", "StartupExisting", "Advance", "Merge", "Refresh"} =>
    \A i, j \in 1..Len(Branches) :
      i # j => Branches[i].index # Branches[j].index

(* a Merge returned branches of two threads, three or more in all *)
C2_Witness ==
  /\ op.name = "Merge"
  /\ cur.mergePages # <<>>
  /\ Len(Branches) >= 3
  /\ \E i, j \in 1..Len(Branches) :
       Branches[i].branchedFrom # Branches[j].branchedFrom

(* C3: Merge(s, otherStart) never modifies its input: for every state  *)
(* s and every start id, the variable store and the visit ledger of s  *)
(* are equal before and after a call that returns, whatever kind of    *)
(* node the id resolves to.                                            *)
C3_MergeLeavesInputUntouched ==
  \A start \in StartIds :
    \A m \in {mergeGameFlowState(World, cur, start)} :
      ~m.w.err =>
        /\ m.w.vars[cur.variables] = heapVars[cur.variables]
        /\ m.w.vis[cur.visits] = heapVisits[cur.visits]

(* what the Branch Collector finds from the primary position *)
PrimaryCollection ==
  collectBranches(World, primaryIter(cur), cur.visits, NoBranch, 0, -1, Null,
                  <<>>).r

(* the branches found so far, then those of the merged pages from page *)
(* i on, each page's numbered past the ones before it                  *)
RECURSIVE CollectedFrom(_, _)
CollectedFrom(found, i) ==
  IF i > Len(cur.mergePages) THEN found
  ELSE CollectedFrom(
         found \o [k \in 1..Len(collectBranches(
                                  World, pageIter(cur, cur.mergePages[i]),
                                  cur.visits, NoBranch, 0, -1, Null,
                                  <<>>).r.branches) |->
                     [collectBranches(World, pageIter(cur, cur.mergePages[i]),
                                      cur.visits, NoBranch, 0, -1, Null,
                                      <<>>).r.branches[k]
                        EXCEPT !.index = @ + maxBranchIndex(found) + 1]],
         i + 1)

(* C4: RefreshBranches returns a branch cache consistent with the      *)
(* current variables and visits: its branches are exactly those the    *)
(* Branch Collector finds from the primary position and from each      *)
(* merged page, so a cached branch that is no longer reachable is      *)
(* absent, also when no branch is reachable any more, and its terminal *)
(* branch is the one the primary collection finds.                     *)
C4_RefreshYieldsCollected ==
  \A r \in {refreshBranches(World, cur)} :
    ~r.w.err =>
      /\ r.w.brs[r.state.branches] = CollectedFrom(PrimaryCollection.branches, 1)
      /\ r.state.terminalBranch = PrimaryCollection.terminalBranch

(* C4, its case of a guard that fails after an external change: the    *)
(* state has no merged page and the collector finds no branch from its *)
(* position, and the refreshed state has no branch.                    *)
C4_NoStaleBranch ==
  (cur.mergePages = <<>> /\ PrimaryCollection.branches = <<>>) =>
    \A r \in {refreshBranches(World, cur)} :
      ~r.w.err => r.w.brs[r.state.branches] = <<>>

(* a branch without its index: its path and the page it started from *)
Shape(b) == [path |-> b.path, branchedFrom |-> b.branchedFrom]

(* the same branches up to ordering and index values *)
SameBranches(a, b) ==
  /\ Len(a) = Len(b)
  /\ \A i \in 1..Len(a) :
       Cardinality({k \in 1..Len(a) : Shape(a[k]) = Shape(a[i])})
       = Cardinality({k \in 1..Len(b) : Shape(b[k]) = Shape(a[i])})

(* C5: RefreshBranches is idempotent: for every state s, refreshing    *)
(* the refreshed state again yields the same branches (paths and       *)
(* origins, up to ordering and index values) and the same pages.       *)
C5_RefreshIdempotent ==
  \A once \in {refreshBranches(World, cur)} :
    \A twice \in {refreshBranches(once.w, once.state)} :
      ~twice.w.err =>
        /\ SameBranches(once.w.brs[once.state.branches],
                        twice.w.brs[twice.state.branches])
        /\ twice.state.pages = once.state.pages

(* C5 read with duplicates ignored: the same set of path-origin pairs *)
C5_SameShapes ==
  \A once \in {refreshBranches(World, cur)} :
    \A twice \in {refreshBranches(once.w, once.state)} :
      ~twice.w.err =>
        {Shape(once.w.brs[once.state.branches][k]) :
           k \in 1..Len(once.w.brs[once.state.branches])}
        = {Shape(twice.w.brs[twice.state.branches][k]) :
             k \in 1..Len(twice.w.brs[twice.state.branches])}

(* C6: while RefreshBranches runs, for the primary position and for    *)
(* every merged page, scripts run shadowed: the call adds no action to *)
(* the host action queue, also while a middleware pass is active.      *)
C6_RefreshQueuesNothing ==
  \A r \in {refreshBranches(World, cur)} : r.w.queue = actionQueue

(* C7: RefreshBranches does not modify its input: the variable store,  *)
(* the visit ledger and the cached branch list of the input state are  *)
(* equal before and after the call (pages and merge origins are held   *)
(* by value: the code writes neither array of the input).              *)
C7_RefreshLeavesInputUntouched ==
  \A r \in {refreshBranches(World, cur)} :
    ~r.w.err =>
      /\ r.w.vars[cur.variables] = heapVars[cur.variables]
      /\ r.w.vis[cur.visits] = heapVisits[cur.visits]
      /\ r.w.brs[cur.branches] = heapBranches[cur.branches]

(* the cache holds a branch with index i *)
Cached(i) == \E k \in 1..Len(Branches) : Branches[k].index = i

(* Advance(cur, i) returns the input state itself and touches nothing *)
NoOp(i) ==
  \A r \in {advanceGameFlowState(World, cur, i)} :
    r.state = cur /\ r.w = World /\ r.node = Null

(* the node the state is positioned on offers zero branches *)
OffersNoBranch ==
  /\ getObject(cur.id) # Null
  /\ numBranches(World, cur.id, cur.variables, cur.visits, cur.last, TRUE).n = 0

(* C8 as stated: Advance is a no-op returning the input state itself   *)
(* when the cache holds no branch with the requested index, and in     *)
(* particular on every state positioned on a node that offers zero     *)
(* branches and on every state with no position.                       *)
C8_AdvanceNoOp ==
  \A i \in AdvanceIndices :
    (~Cached(i) \/ OffersNoBranch \/ cur.id = Null) => NoOp(i)

(* C8 amended: Advance returns the input state itself, executing no    *)
(* node and leaving variables, visits, turn, position and branches     *)
(* unchanged, when the cache holds no branch with the requested index  *)
(* or the state has no position.                                       *)
C8_AdvanceNoOpWhenAbsent ==
  \A i \in AdvanceIndices : (~Cached(i) \/ cur.id = Null) => NoOp(i)

(* a positioned state with cached branches was asked for an index it   *)
(* does not cache, and the call returned that state                    *)
C8_Witness ==
  /\ op.name = "Advance"
  /\ cur.id # Null
  /\ Len(Branches) > 0
  /\ ~Cached(op.index)
  /\ NoOp(op.index)

(* where following the path from the position old leaves the state *)
Positioned(s, path, old) ==
  /\ s.id = path[Len(path)]
  /\ s.last = IF Len(path) > 1 THEN path[Len(path) - 1] ELSE old
  /\ s.mergePages = <<>>
  /\ Len(s.pages) > 0
  /\ s.pages[1] = s.id

(* C9 as stated: when the requested branch exists and no skip-through  *)
(* applies, Advance returns a state positioned on the last id of the   *)
(* branch's path, with last the second-to-last id (or the old          *)
(* position), no merge origins, and pages starting with the position.  *)
C9_AdvanceFollowsBranch ==
  \A i \in AdvanceIndices :
    Cached(i) =>
      \A r \in {advanceGameFlowState(World, cur, i)} :
        (~r.w.err /\ ~r.skipped) =>
          Positioned(r.state, findBranch(Branches, i).path, cur.id)

(* the start ids startup advances from: nodes the walk does not stop at *)
PassedStarts == {start \in StartIds : getObject(start) # Null /\ ~shouldStopAt(start)}

(* the indices a state caches, in the world w *)
IndicesOf(w, s) == {w.brs[s.branches][k].index : k \in 1..Len(w.brs[s.branches])}

(* C9 amended: the same, for a state that has a position: the state    *)
(* the caller holds, and the state startup advances from, which may be *)
(* positioned on a pin one step before its only stop                   *)
C9_AdvanceFollowsBranchFromPosition ==
  /\ \A i \in AdvanceIndices :
       (Cached(i) /\ cur.id # Null) =>
         \A r \in {advanceGameFlowState(World, cur, i)} :
           (~r.w.err /\ ~r.skipped) =>
             Positioned(r.state, findBranch(Branches, i).path, cur.id)
  /\ \A start \in PassedStarts :
       \A v \in {startedState(World, start, TRUE, cur)} :
         \A i \in IndicesOf(v.w, v.state) :
           \A r \in {advanceGameFlowState(v.w, v.state, i)} :
             (~r.w.err /\ ~r.skipped) =>
               Positioned(r.state,
                          findBranch(v.w.brs[v.state.branches], i).path, start)

(* a branch of a merged page is followed from a positioned state, and *)
(* a path of one element is followed from a state positioned on a pin  *)
C9_Witness ==
  /\ \E i \in AdvanceIndices :
       /\ Cached(i)
       /\ cur.id # Null
       /\ cur.mergePages # <<>>
       /\ findBranch(Branches, i).branchedFrom # cur.id
       /\ Len(findBranch(Branches, i).path) > 1
       /\ \A r \in {advanceGameFlowState(World, cur, i)} :
            ~r.w.err /\ ~r.skipped /\ r.state.id # cur.id
  /\ \E start \in PassedStarts :
       \E v \in {startedState(World, start, TRUE, cur)} :
         \E i \in IndicesOf(v.w, v.state) :
           /\ Len(findBranch(v.w.brs[v.state.branches], i).path) = 1
           /\ \A r \in {advanceGameFlowState(v.w, v.state, i)} :
                ~r.w.err /\ ~r.skipped /\ r.state.last = start

(* how often the path visits x, and how often its steps co-visit x *)
Occurrences(path, x) == Cardinality({k \in 1..Len(path) : path[k] = x})
CoVisits(path, x) ==
  Cardinality({km \in (1..Len(path)) \X (1..2) :
                 /\ km[2] <= Len(db[path[km[1]]].covisits)
                 /\ db[path[km[1]]].covisits[km[2]] = x})

(* C10: one Advance that follows a branch without skip-through raises  *)
(* the turn by exactly one, raises the visit count of every id by its  *)
(* occurrences on the path plus its co-visit declarations, stamps each *)
(* of those ids with the turn of the input state, and leaves count and *)
(* turn index of every other id unchanged.                             *)
C10_AdvanceCountsVisits ==
  \A i \in AdvanceIndices :
    (Cached(i) /\ cur.id # Null) =>
      \A r \in {advanceGameFlowState(World, cur, i)} :
        (~r.w.err /\ ~r.skipped) =>
          /\ r.state.turn = cur.turn + 1
          /\ \A x \in NodeIds :
               /\ Get(r.w.vis[r.state.visits].counts, x, 0)
                  = Get(heapVisits[cur.visits].counts, x, 0)
                    + Occurrences(findBranch(Branches, i).path, x)
                    + CoVisits(findBranch(Branches, i).path, x)
               /\ Get(r.w.vis[r.state.visits].indicies, x, -1)
                  = IF Occurrences(findBranch(Branches, i).path, x)
                       + CoVisits(findBranch(Branches, i).path, x) > 0
                      THEN cur.turn
                      ELSE Get(heapVisits[cur.visits].indicies, x, -1)

(* the followed path has a step that declares a co-visit of a node     *)
(* visited before, on a turn later than that visit                    *)
C10_Witness ==
  \E i \in AdvanceIndices :
    /\ Cached(i)
    /\ cur.id # Null
    /\ cur.turn > 0
    /\ \E x \in NodeIds :
         /\ CoVisits(findBranch(Branches, i).path, x) > 0
         /\ Get(heapVisits[cur.visits].counts, x, 0) > 0
    /\ \A r \in {advanceGameFlowState(World, cur, i)} :
         ~r.w.err /\ ~r.skipped

(* what Startup may be handed as existing state: the state the caller  *)
(* holds, or nothing; a Startup with nothing does not depend on the    *)
(* state held, so it is looked at from the null state only             *)
Carried == IF op.name = "init" THEN BOOLEAN ELSE {TRUE}

(* the start ids that resolve to a node *)
ResolvedStarts == {start \in StartIds : getObject(start) # Null}

(* the configured policy answers CreatePage for no node *)
NoPagePolicy ==
  ~policy.has \/ \A n \in DOMAIN policy.answer : policy.answer[n] # CreatePage

(* the configured policy answers Advance for no node *)
NoSkipPolicy ==
  ~policy.has \/ \A n \in DOMAIN policy.answer : policy.answer[n] # AdvanceStop

(* the last id of the path of the branch with index i among bs *)
EndOf(bs, i) == findBranch(bs, i).path[Len(findBranch(bs, i).path)]

C12_MergeUnionsThreads ==
  \A start \in StartIds :
    \A m \in {mergeGameFlowState(World, cur, start)},
       t \in {startupGameFlowState(World, start, TRUE, cur)} :
      ~m.w.err =>
        /\ m.state.id = cur.id
        /\ m.state.last = cur.last
        /\ m.state.pages = cur.pages \o t.state.pages
        /\ Len(m.w.brs[m.state.branches])
           = Len(Branches) + Len(t.w.brs[t.state.branches])
        /\ \A k \in 1..Len(Branches) : m.w.brs[m.state.branches][k] = Branches[k]
        /\ \A k \in 1..Len(t.w.brs[t.state.branches]) :
             /\ Shape(m.w.brs[m.state.branches][Len(Branches) + k])
                = Shape(t.w.brs[t.state.branches][k])
             /\ m.w.brs[m.state.branches][Len(Branches) + k].index
                > maxBranchIndex(Branches)
             /\ m.w.brs[m.state.branches][Len(Branches) + k].index
                = t.w.brs[t.state.branches][k].index + maxBranchIndex(Branches) + 1

(* a positioned state with branches is merged with a thread that stops *)
(* elsewhere and brings branches of its own                            *)
C12_Witness ==
  /\ cur.id # Null
  /\ Len(Branches) > 0
  /\ \E start \in StartIds :
       \E m \in {mergeGameFlowState(World, cur, start)},
          t \in {startupGameFlowState(World, start, TRUE, cur)} :
         /\ ~m.w.err
         /\ t.state.id # Null /\ t.state.id # cur.id
         /\ Len(t.w.brs[t.state.branches]) > 0
         /\ Len(m.w.brs[m.state.branches]) > Len(Branches)

(* the globals of the state the caller holds *)
Globals == [variables |-> cur.variables, visits |-> cur.visits, turn |-> cur.turn]

(* the start ids that resolve to no node *)
UnresolvedStarts == StartIds \ ResolvedStarts

(* C13: given a start id that resolves to no node, Merge and Startup   *)
(* through the with-globals wrapper do not raise and hand back the     *)
(* variable store, the visit ledger and the turn counter they were     *)
(* given, unchanged.                                                   *)
C13_UnresolvedStartKeepsGlobals ==
  \A start \in UnresolvedStarts :
    \A m \in {mergeGameFlowState(World, cur, start)},
       g \in {startupGameFlowStateWithGlobals(World, Globals, start)} :
      /\ ~m.w.err
      /\ m.w.vars[m.state.variables] = heapVars[cur.variables]
      /\ m.w.vis[m.state.visits] = heapVisits[cur.visits]
      /\ m.state.turn = cur.turn
      /\ ~g.w.err
      /\ g.w.vars[g.globals.variables] = heapVars[cur.variables]
      /\ g.w.vis[g.globals.visits] = heapVisits[cur.visits]
      /\ g.globals.turn = cur.turn

(* C14: Startup with a start id that resolves to no node does not      *)
(* raise and returns the null state: no position, no pages, no         *)
(* branches, no fallback terminal branch, empty variables and visits,  *)
(* turn 0; it reports no node, runs no script (the store carried in is *)
(* as before) and invokes no execution handler (nothing is queued).    *)
C14_UnresolvedStartupIsNull ==
  \A start \in UnresolvedStarts, h \in Carried :
    \A r \in {startupGameFlowState(World, start, h, cur)} :
      /\ ~r.w.err
      /\ r.node = Null
      /\ Deep(r.w, r.state)
         = [id |-> Null, last |-> Null, pages |-> <<>>, mergePages |-> <<>>,
            variables |-> EmptyStore, visits |-> EmptyVisitSet,
            branches |-> <<>>, turn |-> 0, terminalBranch |-> NoBranch]
      /\ r.w.vars[cur.variables] = heapVars[cur.variables]
      /\ r.w.vis[cur.visits] = heapVisits[cur.visits]
      /\ r.w.queue = actionQueue

(* a caller that holds a positioned state with branches, visits and a  *)
(* turn count starts up at an id no node has, while a pass is active   *)
C14_Witness ==
  /\ cur.id # Null
  /\ Len(Branches) > 0
  /\ cur.turn > 0
  /\ queueOn
  /\ \E start \in UnresolvedStarts :
       \E r \in {startupGameFlowState(World, start, TRUE, cur)} :
         ~r.w.err /\ r.state.id = Null /\ r.node = Null

(* the script a node runs when it is executed *)
ScriptOf(n) ==
  CASE db[n].kind = "OutputPin" -> db[n].Text
    [] db[n].kind = "Instruction" -> db[n].Expression
    [] OTHER -> NoScript

(* the value of Test.X after the first i steps of the path were run in *)
(* path order from the value x                                        *)
RECURSIVE ValueAfter(_, _, _)
ValueAfter(path, i, x) ==
  IF i = 0 THEN x
  ELSE IF ScriptOf(path[i]).op = "set" THEN ScriptOf(path[i]).k
  ELSE ValueAfter(path, i - 1, x)

(* the actions the first i steps of the path yield, in path order: one *)
(* for a script that notifies, one for a handled feature               *)
RECURSIVE YieldedBy(_, _)
YieldedBy(path, i) ==
  IF i = 0 THEN <<>>
  ELSE YieldedBy(path, i - 1)
       \o (IF ScriptOf(path[i]) = Notify
             THEN <<[type |-> "notify", caller |-> path[i]]>> ELSE <<>>)
       \o (IF db[path[i]].Template \cap {"Pause"} # {}
             THEN <<[type |-> "feature", caller |-> path[i]]>> ELSE <<>>)

(* the state has no cached branch and has a fallback terminal branch *)
AtDeadEnd == Len(Branches) = 0 /\ cur.terminalBranch # NoBranch

(* C15: CompleteFlow on a state with an empty branch list and a        *)
(* fallback terminal branch executes every node of the fallback path   *)
(* exactly once, in path order and committed: the returned store holds *)
(* the effects of the path's scripts in order, every step is counted   *)
(* as visited once per occurrence at the state's turn, every handler   *)
(* runs once per step, the input's store is left alone, and the        *)
(* returned state has no position, no previous position, no branches   *)
(* and no fallback.                                                    *)
C15_CompleteFlowRunsFallback ==
  AtDeadEnd =>
    \A r \in {completeFlow(World, cur)} :
      ~r.w.err =>
        /\ r.state.id = Null /\ r.state.last = Null
        /\ r.w.brs[r.state.branches] = <<>>
        /\ r.state.terminalBranch = NoBranch
        /\ r.w.vars[r.state.variables].X
           = ValueAfter(cur.terminalBranch.path, Len(cur.terminalBranch.path),
                        heapVars[cur.variables].X)
        /\ r.w.vars[cur.variables] = heapVars[cur.variables]
        /\ \A x \in NodeIds :
             /\ Get(r.w.vis[r.state.visits].counts, x, 0)
                = Get(heapVisits[cur.visits].counts, x, 0)
                  + Occurrences(cur.terminalBranch.path, x)
                  + CoVisits(cur.terminalBranch.path, x)
             /\ Get(r.w.vis[r.state.visits].indicies, x, -1)
                = IF Occurrences(cur.terminalBranch.path, x)
                     + CoVisits(cur.terminalBranch.path, x) > 0
                    THEN cur.turn
                    ELSE Get(heapVisits[cur.visits].indicies, x, -1)
        /\ r.w.queue
           = actionQueue \o
             (IF queueOn
                THEN YieldedBy(cur.terminalBranch.path,
                               Len(cur.terminalBranch.path))
                ELSE <<>>)

(* the fallback path holds an instruction that changes the store *)
C15_Witness ==
  /\ AtDeadEnd
  /\ \E k \in 1..Len(cur.terminalBranch.path) :
       db[cur.terminalBranch.path[k]].kind = "Instruction"
  /\ \A r \in {completeFlow(World, cur)} :
       ~r.w.err /\ r.w.vars[r.state.variables] # heapVars[cur.variables]

(* C16: CompleteFlow on a state that still has a cached branch, or     *)
(* that has no fallback terminal branch, executes no node: variables,  *)
(* visits and turn of the returned state equal the input's, nothing is *)
(* queued, and position, previous position, pages, merge origins,      *)
(* branches and fallback are cleared.                                  *)
C16_CompleteFlowClearsOnly ==
  ~AtDeadEnd =>
    \A r \in {completeFlow(World, cur)} :
      /\ ~r.w.err
      /\ r.w.queue = actionQueue
      /\ Deep(r.w, r.state)
         = [id |-> Null, last |-> Null, pages |-> <<>>, mergePages |-> <<>>,
            variables |-> heapVars[cur.variables],
            visits |-> heapVisits[cur.visits],
            branches |-> <<>>, turn |-> cur.turn, terminalBranch |-> NoBranch]

(* a positioned state caches branches beside a fallback whose path has *)
(* steps, is merged with another thread, and a pass is active          *)
C16_Witness ==
  /\ cur.id # Null
  /\ Len(Branches) > 0
  /\ cur.terminalBranch # NoBranch
  /\ Len(cur.terminalBranch.path) > 0
  /\ cur.mergePages # <<>>
  /\ queueOn
  /\ \A r \in {completeFlow(World, cur)} : ~r.w.err /\ r.state.id = Null

(* the state s of the world w is as CompleteFlow returns states: no    *)
(* position, no pages, no branches, no fallback                        *)
CompletedIn(w, s) ==
  /\ s.id = Null /\ s.last = Null
  /\ s.pages = <<>> /\ s.mergePages = <<>>
  /\ w.brs[s.branches] = <<>>
  /\ s.terminalBranch = NoBranch

(* the state s of the world w has the globals of the state held, and   *)
(* nothing was queued on the way to it                                 *)
SameGlobals(w, s) ==
  /\ w.vars[s.variables] = heapVars[cur.variables]
  /\ w.vis[s.visits] = heapVisits[cur.visits]
  /\ s.turn = cur.turn
  /\ w.queue = actionQueue

(* C17: Completed is a terminal state: CompleteFlow returns a state    *)
(* with no position, no branches and no fallback, and from such a      *)
(* state every Advance (any index), RefreshBranches and CompleteFlow   *)
(* returns a state of the same kind with the same variables, visits    *)
(* and turn, executing no node; by induction this holds for every      *)
(* sequence of these calls.                                            *)
C17_CompletedIsTerminal ==
  /\ \A c \in {completeFlow(World, cur)} : ~c.w.err => CompletedIn(c.w, c.state)
  /\ CompletedIn(World, cur) =>
       /\ \A i \in AdvanceIndices \cup {0} :
            \A r \in {advanceGameFlowState(World, cur, i)} :
              /\ ~r.w.err /\ r.node = Null
              /\ CompletedIn(r.w, r.state) /\ SameGlobals(r.w, r.state)
       /\ \A r \in {refreshBranches(World, cur)} :
            ~r.w.err /\ CompletedIn(r.w, r.state) /\ SameGlobals(r.w, r.state)
       /\ \A r \in {completeFlow(World, cur)} :
            ~r.w.err /\ CompletedIn(r.w, r.state) /\ SameGlobals(r.w, r.state)

(* a flow that ran for a turn was completed, and the caller went on to *)
(* call Advance on the state it got                                    *)
C17_Witness ==
  /\ op.name = "Advance"
  /\ CompletedIn(World, cur)
  /\ cur.turn > 0
  /\ DOMAIN heapVisits[cur.visits].counts # {}

(* the ledger and turn of state s in world w are not behind those of   *)
(* the state held: no count is lower, no stamped turn is lower, and    *)
(* the turn counter is not lower                                       *)
NotBehind(w, s) ==
  /\ \A x \in DOMAIN heapVisits[cur.visits].counts :
       Get(w.vis[s.visits].counts, x, 0) >= heapVisits[cur.visits].counts[x]
  /\ \A x \in DOMAIN heapVisits[cur.visits].indicies :
       Get(w.vis[s.visits].indicies, x, -1) >= heapVisits[cur.visits].indicies[x]
  /\ s.turn >= cur.turn

(* one link of a chain from the state held: every call but Startup and *)
(* Merge                                                               *)
StaysNotBehind ==
  /\ \A i \in AdvanceIndices :
       \A r \in {advanceGameFlowState(World, cur, i)} :
         ~r.w.err => NotBehind(r.w, r.state)
  /\ \A r \in {refreshBranches(World, cur)} : ~r.w.err => NotBehind(r.w, r.state)
  /\ \A r \in {completeFlow(World, cur)} : ~r.w.err => NotBehind(r.w, r.state)

(* one link of a chain from the state held: Startup with the state as  *)
(* existing state, and Merge, at the given start ids                   *)
StartsNotBehind(starts) ==
  \A start \in starts :
    \A r \in {startupGameFlowState(World, start, TRUE, cur)},
       m \in {mergeGameFlowState(World, cur, start)} :
      /\ ~r.w.err => NotBehind(r.w, r.state)
      /\ ~m.w.err => NotBehind(m.w, m.state)

(* C18: along any chain of Startup (with existing state), Advance,     *)
(* Merge, RefreshBranches and CompleteFlow calls, each applied to the  *)
(* state the previous one returned, no node's visit count decreases,   *)
(* and neither the turn values stamped into the ledger nor the turn    *)
(* counter decrease: every link of such a chain keeps them.            *)
C18_LedgerNeverDecreases == StaysNotBehind /\ StartsNotBehind(StartIds)

(* C18 for chains whose start ids all resolve to a node *)
C18_LedgerNeverDecreasesResolved == StaysNotBehind /\ StartsNotBehind(ResolvedStarts)

(* a walk can end dead at node n: n can offer zero branches, or can    *)
(* have no next node                                                   *)
MayDeadEnd(n) ==
  /\ n \in NodeIds
  /\ CASE db[n].kind = "OutputPin" -> Len(db[n].Connections) = 0
       [] db[n].kind = "InputPin" -> db[n].Text.op \notin {"none", "comment"}
       [] db[n].kind \in {"Hub", "DialogueFragment", "Instruction"} ->
            Len(db[n].OutputPins) = 0
       [] db[n].kind = "Condition" -> Len(db[n].OutputPins) < 2
       [] db[n].kind = "Jump" -> JumpTarget(n) = Null
       [] db[n].kind \in {"FlowFragment", "Dialogue"} ->
            \/ Len(db[n].InputPins) = 0
            \/ \E k \in 1..Len(db[n].InputPins) :
                 /\ Len(db[db[n].InputPins[k]].Connections) = 0
                 /\ Len(db[n].OutputPins) = 0

(* every cached branch has a non-empty path that ends on a node the    *)
(* stop predicate classifies as terminal                               *)
CachedEndOnStops ==
  \A k \in 1..Len(Branches) :
    /\ Len(Branches[k].path) > 0
    /\ shouldStopAt(Branches[k].path[Len(Branches[k].path)])

(* a fallback with steps ends on the last node reached before the dead *)
(* end: a node a walk can end dead at                                  *)
FallbackEndsDead ==
  (cur.terminalBranch # NoBranch /\ Len(cur.terminalBranch.path) > 0) =>
    MayDeadEnd(cur.terminalBranch.path[Len(cur.terminalBranch.path)])

(* C19 as stated: every branch held in a returned state, cached or     *)
(* fallback, has a non-empty path; a cached branch ends on a terminal  *)
(* node and the fallback on the last node reached before the dead end. *)
C19_BranchesNonEmpty ==
  /\ CachedEndOnStops
  /\ cur.terminalBranch # NoBranch => Len(cur.terminalBranch.path) > 0
  /\ FallbackEndsDead

(* C19 amended: every cached branch has a non-empty path ending on a   *)
(* terminal node; the fallback has an empty path when the walk ends    *)
(* dead on the very node it starts from, and otherwise ends on the     *)
(* last node reached before the dead end.                              *)
C19_BranchesEndWhereWalksEnd ==
  /\ CachedEndOnStops
  /\ (cur.terminalBranch # NoBranch /\ Len(cur.terminalBranch.path) = 0) =>
       MayDeadEnd(cur.terminalBranch.branchedFrom)
  /\ FallbackEndsDead

(* a returned state caches branches beside a fallback with steps *)
C19_Witness ==
  /\ op.name \in {"Startup", "StartupExisting", "Advance", "Merge", "Refresh"}
  /\ Len(Branches) >= 2
  /\ cur.terminalBranch # NoBranch
  /\ Len(cur.terminalBranch.path) > 0

(* C20: in every state returned by Startup, Advance, Merge or          *)
(* RefreshBranches whose position is not null, the page list contains  *)
(* the position id.                                                    *)
C20_PagesHoldPosition ==
  (/\ op.name \in {"Startup", "StartupExisting", "Advance", "Merge", "Refresh"}
   /\ cur.id # Null) =>
    \E k \in 1..Len(cur.pages) : cur.pages[k] = cur.id

(* a refreshed state is positioned and has pages of a second thread *)
C20_Witness ==
  /\ op.name = "Refresh"
  /\ cur.id # Null
  /\ Len(cur.pages) >= 2
  /\ \E k \in 1..Len(cur.pages) : cur.pages[k] # cur.id

(* the actions in the entries of a log that satisfy the test *)
ActionsOf(log, Test(_)) ==
  [k \in 1..Len(SelectSeq(log, Test)) |-> SelectSeq(log, Test)[k].action]

(* what generators yielded, not shadowed, inside next(action) of pass p *)
YieldsOf(p) == ActionsOf(yieldLog, LAMBDA e : e.pass = p /\ ~e.shadowing)

(* what pass p asked the store to dispatch, in order *)
DispatchesOf(p) == ActionsOf(dispatched, LAMBDA d : d.by = p)

(* what pass p is to dispatch: the yields, then the finalize action of *)
(* its wrapped action if any was queued and one is configured          *)
ToDispatch(p) ==
  YieldsOf(p) \o (IF Len(YieldsOf(p)) > 0 /\ finalizeAction
                    THEN <<finalize(passes[p])>> ELSE <<>>)

IsPrefix(a, b) == Len(a) <= Len(b) /\ SubSeq(b, 1, Len(a)) = a

InFlight(p) == \E k \in 1..Len(frames) : frames[k].id = p
Finished(p) == p \in 1..Len(passes) /\ ~InFlight(p)
Within(p, pc) == \E k \in 1..Len(frames) : frames[k].id = p /\ frames[k].pc = pc

(* C21: within one middleware pass, the actions yielded by non-shadow  *)
(* evaluations are dispatched only after the wrapped action has been   *)
(* fully processed, each exactly once, by that pass, in the order they *)
(* were yielded; the queue is cleared before control returns; and the  *)
(* finalize action is dispatched after them and only if at least one   *)
(* action was queued and a finalize action is configured.              *)
C21_PassFlushesYields ==
  /\ \A p \in 1..Len(passes) :
       /\ IsPrefix(DispatchesOf(p), ToDispatch(p))
       /\ Within(p, "next") => DispatchesOf(p) = <<>>
       /\ (Finished(p) \/ Within(p, "return")) => DispatchesOf(p) = ToDispatch(p)
  /\ \A d \in 1..Len(dispatched) :
       dispatched[d].action.type = "yield" =>
         dispatched[d].by = dispatched[d].action.pass
  /\ (IF frames = <<>> THEN TRUE ELSE Top.pc = "return") =>
       (~queueOn /\ actionQueue = <<>>)

(* a pass that queued two actions has dispatched them and its finalize *)
(* action, and a pass entered by one of those dispatches has queued    *)
(* and dispatched an action of its own                                 *)
C21_Witness ==
  \E p, q \in 1..Len(passes) :
    /\ Finished(p) /\ Finished(q)
    /\ finalizeAction
    /\ Len(YieldsOf(p)) = 2
    /\ Len(DispatchesOf(p)) = 3
    /\ passes[q].type = "yield" /\ passes[q].pass = p
    /\ Len(YieldsOf(q)) = 1
    /\ \E k \in 1..Len(yieldLog) : yieldLog[k].shadowing

(* C22: an action yielded by a non-shadow script function or handler   *)
(* while no middleware pass is active is not lost: the next pass       *)
(* dispatches it when it ends.                                         *)
C22_YieldOutsidePassIsKept ==
  \A k \in 1..Len(yieldLog) :
    (/\ yieldLog[k].pass = 0
     /\ ~yieldLog[k].shadowing
     /\ Finished(yieldLog[k].after + 1)) =>
      \E d \in 1..Len(dispatched) : dispatched[d].action = yieldLog[k].action

(* how often handler h was called for node n in a log of calls *)
CallsOf(calls, h, n) ==
  Cardinality({k \in 1..Len(calls) : calls[k].handler = h /\ calls[k].node = n})

(* the registrations of h among a list of handlers *)
TimesIn(handlers, h) ==
  Cardinality({k \in 1..Len(handlers) : handlers[k].name = h})

(* the registrations of h under the features of n's template *)
ForFeaturesOf(n, h) ==
  Cardinality(UNION {{<<f, k>> : k \in {j \in 1..Len(featureHandlers[f]) :
                                          featureHandlers[f][j].name = h}}
                     : f \in db[n].Template \cap DOMAIN featureHandlers})

(* the registrations of h under n's own type *)
ForTypeOf(n, h) ==
  IF db[n].Type \in DOMAIN templateHandlers
    THEN TimesIn(templateHandlers[db[n].Type], h) ELSE 0

HandlerNames ==
  UNION {{featureHandlers[f][k].name : k \in 1..Len(featureHandlers[f])}
         : f \in DOMAIN featureHandlers}
  \cup UNION {{templateHandlers[t][k].name : k \in 1..Len(templateHandlers[t])}
              : t \in DOMAIN templateHandlers}

(* the nodes that have a template *)
TemplatedNodes == {n \in NodeIds : db[n].Template # {}}

(* the log holds, for every node, one call of each feature handler per *)
(* execution, and one of each type handler when the node is in typed   *)
HandlersRun(calls, executed, typed) ==
  \A h \in HandlerNames,
     n \in {executed[k] : k \in 1..Len(executed)}
            \cup {calls[k].node : k \in 1..Len(calls)} :
    CallsOf(calls, h, n)
    = Occurrences(executed, n)
      * (ForFeaturesOf(n, h) + IF n \in typed THEN ForTypeOf(n, h) ELSE 0)

(* every non-speculative execution runs the handlers of the nodes in   *)
(* typed by type and of every node by feature; collecting runs none    *)
HandlersRunPerExecution(typed) ==
  /\ \A i \in AdvanceIndices :
       (Cached(i) /\ cur.id # Null) =>
         \A r \in {advanceGameFlowState(World, cur, i)} :
           (~r.w.err /\ ~r.skipped) =>
             HandlersRun(r.w.calls, findBranch(Branches, i).path, typed)
  /\ \A start \in ResolvedStarts, h \in Carried :
       \A v \in {startedState(World, start, h, cur)} :
         ~v.w.err => HandlersRun(v.w.calls, <<start>>, typed)
  /\ \A r \in {completeFlow(World, cur)} :
       ~r.w.err =>
         HandlersRun(r.w.calls,
                     IF AtDeadEnd THEN cur.terminalBranch.path ELSE <<>>, typed)
  /\ refreshBranches(World, cur).w.calls = <<>>

(* C23 as stated: each time a node is executed non-speculatively (the  *)
(* start node in Startup, each path node in Advance and CompleteFlow)  *)
(* every handler registered for a feature on the node's template is    *)
(* invoked exactly once and every handler registered for the node's    *)
(* own type exactly once; collecting branches invokes no handler.      *)
C23_HandlersRunOncePerExecution == HandlersRunPerExecution(NodeIds)

(* C23 amended: the same, the handlers registered for the node's own   *)
(* type being invoked only when the node has a template; for a node    *)
(* without a template no handler is invoked.                           *)
C23_HandlersRunOncePerTemplatedExecution == HandlersRunPerExecution(TemplatedNodes)

(* one Advance executes a templated node with handlers for its feature *)
(* and its type, another a node without template whose type has one    *)
C23_Witness ==
  \E i, j \in AdvanceIndices :
    /\ Cached(i) /\ Cached(j) /\ cur.id # Null
    /\ \E n \in TemplatedNodes :
         /\ Occurrences(findBranch(Branches, i).path, n) = 1
         /\ \E f, t \in HandlerNames : ForFeaturesOf(n, f) = 1 /\ ForTypeOf(n, t) = 1
         /\ \A r \in {advanceGameFlowState(World, cur, i)} :
              ~r.w.err /\ ~r.skipped /\ Len(r.w.calls) = 3
    /\ \E n \in NodeIds \ TemplatedNodes :
         /\ Occurrences(findBranch(Branches, j).path, n) = 1
         /\ \E t \in HandlerNames : ForTypeOf(n, t) = 1
         /\ \A r \in {advanceGameFlowState(World, cur, j)} :
              ~r.w.err /\ ~r.skipped /\ r.w.calls = <<>>

(* C24: the Flow State passed to an execution handler is the current   *)
(* value of the state during execution: for a node executed as the     *)
(* k-th step of an advancing branch, the variables and visit counts    *)
(* the handler reads reflect the effects of steps 1 to k-1 of that     *)
(* branch.                                                             *)
C24_HandlerReadsCurrentState ==
  \A i \in AdvanceIndices :
    (Cached(i) /\ cur.id # Null) =>
      \A r \in {advanceGameFlowState(World, cur, i)} :
        (~r.w.err /\ ~r.skipped) =>
          \A c \in 1..Len(r.w.calls) :
            \A k \in 1..Len(findBranch(Branches, i).path) :
              findBranch(Branches, i).path[k] = r.w.calls[c].node =>
                /\ r.w.calls[c].X
                   = ValueAfter(findBranch(Branches, i).path, k - 1,
                                heapVars[cur.variables].X)
                /\ \A x \in NodeIds :
                     Get(r.w.calls[c].counts, x, 0)
                     = Get(heapVisits[cur.visits].counts, x, 0)
                       + Occurrences(SubSeq(findBranch(Branches, i).path, 1, k - 1), x)
                       + CoVisits(SubSeq(findBranch(Branches, i).path, 1, k - 1), x)

(* whether a handler with the id is among the handlers of the key *)
Kept(handlers, key, id) ==
  IF TimesIn(Get(handlers, key, <<>>), id) > 0 THEN 1 ELSE 0

(* C25: registering a feature (or template) execution handler under a  *)
(* handler id already used for that feature (or template) replaces the *)
(* earlier handler, so a later run of the handlers calls only the      *)
(* newest one; handlers registered under distinct ids for the same     *)
(* feature (or template) are all kept and each is called once per run. *)
C25_SameIdReplaces ==
  /\ op.name = "RegisterFeatureExecutionHandler" =>
       TimesIn(featureHandlers[op.key], op.func.name) = 1
  /\ op.name = "RegisterTemplateExecutionHandler" =>
       TimesIn(templateHandlers[op.key], op.func.name) = 1
  /\ op.name = "OnNodeExecution" =>
       \A id \in HandlerIds :
         CallsOf(evaluated.calls, id, op.key)
         = Kept(featureHandlers, "Pause", id) + Kept(templateHandlers, "PauseHub", id)

(* the visit count of the pin whose guard was evaluated, if it has one *)
HasCount == op.key \in DOMAIN heapVisits[cur.visits].counts
Count == Get(heapVisits[cur.visits].counts, op.key, 0)

(* the guard evaluated last is a call of the built-in registered as f *)
BuiltInCalled(f, handler) ==
  /\ op.name = "numBranches"
  /\ db[op.key].Text.op = "call"
  /\ db[op.key].Text.f = f
  /\ Get(registeredFunctions, f, NoFunction) = handler

(* C26: once() evaluated on behalf of a caller returns true exactly    *)
(* when the caller's visit count in the supplied visit ledger is       *)
(* absent or 0, and false for every count of 1 or more.                *)
C26_OnceIffUnvisited ==
  BuiltInCalled("once", OnceHandler) =>
    /\ ~evaluated.err
    /\ evaluated.val = Bool(~HasCount \/ Count = 0)

(* once() was evaluated for a caller whose count is present and 0 *)
C26_Witness ==
  /\ BuiltInCalled("once", OnceHandler)
  /\ HasCount
  /\ Count = 0
  /\ evaluated.val = Bool(TRUE)
  /\ evaluated.n = 1

(* C27: limit(n) evaluated on behalf of a caller returns true exactly  *)
(* when the caller's visit count (an absent count counting as 0) is    *)
(* strictly less than n, for every number n; in particular limit(0) is *)
(* false whether the count is absent, 0 or positive.                   *)
C27_LimitIffBelow ==
  BuiltInCalled("limit", LimitHandler) =>
    /\ ~evaluated.err
    /\ evaluated.val = Bool(Count < db[op.key].Text.k)

(* a value a script can return is truthy: true, or a number but 0 *)
Truthy(v) == v = Bool(TRUE) \/ (v.t = "number" /\ v.n # 0)

(* C28: an input pin offers 0 branches exactly when its guard script   *)
(* evaluates to a falsy value and 1 branch otherwise: a guard whose    *)
(* value is truthy (boolean true, or a truthy non-boolean such as a    *)
(* non-zero number) lets the path through, and an empty or all-comment *)
(* guard counts as passing.                                            *)
C28_PinOffersBranchIffTruthy ==
  (op.name = "numBranches" /\ ~evaluated.err) =>
    /\ evaluated.n = IF Truthy(evaluated.val) THEN 1 ELSE 0
    /\ db[op.key].Text \in {NoScript, Comment} => evaluated.n = 1

Passes(script, caller, x) ==
  CASE script.op \in {"none", "comment"} -> TRUE
    [] script.op = "ge" -> x >= script.k
    [] script = Once -> Get(heapVisits[cur.visits].counts, caller, 0) = 0
    [] OTHER -> FALSE

(* Test.X once a walk has passed n with the value x *)
ValuePast(n, x) == IF ScriptOf(n).op = "set" THEN ScriptOf(n).k ELSE x

(* the output pin a node is left through, if it has the pin *)
PinAt(n, i) == IF i <= Len(db[n].OutputPins) THEN {db[n].OutputPins[i]} ELSE {}

(* the nodes one available step after n, for a walk that entered n     *)
(* from last with Test.X = x                                           *)
StepsFrom(n, last, x) ==
  CASE db[n].kind = "InputPin" ->
         IF Passes(db[n].Text, n, x) THEN {db[n].Owner} ELSE {}
    [] db[n].kind = "OutputPin" ->
         {db[n].Connections[k].TargetPin : k \in 1..Len(db[n].Connections)}
         \cap NodeIds
    [] db[n].kind \in {"Hub", "DialogueFragment", "Instruction"} -> PinAt(n, 1)
    [] db[n].kind = "Condition" ->
         IF Passes(db[n].Expression, n, x) THEN PinAt(n, 1) ELSE PinAt(n, 2)
    [] db[n].kind = "Jump" ->
         {db[n].TargetPin} \cap {m \in NodeIds : db[m].kind = "InputPin"}
    [] db[n].kind \in {"FlowFragment", "Dialogue"} ->
         LET entered == IF last = Null THEN {db[n].InputPins[k] : k \in {1} \cap DOMAIN db[n].InputPins}
                        ELSE {last} \cap {db[n].InputPins[k] : k \in DOMAIN db[n].InputPins}
         IN UNION {IF Len(db[pin].Connections) = 0 THEN PinAt(n, 1)
                   ELSE {db[pin].Connections[k].TargetPin
                         : k \in 1..Len(db[pin].Connections)} \cap NodeIds
                   : pin \in entered}

(* the paths of at most fuel steps that leave n by an available step,  *)
(* pass no terminal node and end at one                                *)
RECURSIVE PathsFrom(_, _, _, _)
PathsFrom(n, last, x, fuel) ==
  IF fuel = 0 THEN {}
  ELSE UNION {IF shouldStopAt(m) THEN {<<m>>}
              ELSE {<<m>> \o path : path \in PathsFrom(m, n, ValuePast(n, x), fuel - 1)}
              : m \in StepsFrom(n, last, x)}

(* C30: with no custom stop policy, the branches collected from a      *)
(* position are exactly the paths that start at a successor of the     *)
(* position, follow only steps that are available under the variable   *)
(* values speculatively accumulated along the path, contain no         *)
(* terminal node before their last element and end at a terminal node: *)
(* one branch per such path, none missing and none extra.              *)
C30_BranchesAreTheAvailablePaths ==
  (~policy.has /\ getObject(cur.id) # Null) =>
    \A c \in {collectBranches(World, primaryIter(cur), cur.visits, NoBranch, 0,
                              -1, Null, <<>>)} :
      ~c.w.err =>
        /\ {c.r.branches[k].path : k \in 1..Len(c.r.branches)}
           = PathsFrom(cur.id, cur.last, heapVars[cur.variables].X,
                       Cardinality(NodeIds))
        /\ \A j, k \in 1..Len(c.r.branches) :
             c.r.branches[j].path = c.r.branches[k].path => j = k

(* a fork offers more connections than branches are collected, since a *)
(* guard fails, and a collected branch passes an instruction and a     *)
(* condition that reads what the instruction wrote                     *)
C30_Witness ==
  /\ ~policy.has
  /\ getObject(cur.id) # Null
  /\ \A c \in {collectBranches(World, primaryIter(cur), cur.visits, NoBranch, 0,
                               -1, Null, <<>>)} :
       /\ ~c.w.err
       /\ Len(c.r.branches) >= 2
       /\ \E k \in 1..Len(c.r.branches) :
            /\ db[c.r.branches[k].path[1]].kind = "OutputPin"
            /\ Len(db[c.r.branches[k].path[1]].Connections) > Len(c.r.branches)
            /\ \E i, j \in 1..Len(c.r.branches[k].path) :
                 /\ i < j
                 /\ db[c.r.branches[k].path[i]].kind = "Instruction"
                 /\ db[c.r.branches[k].path[j]].kind = "Condition"

(* the last emission of a path a collection recorded *)
EmittedAs(log, path) ==
  log[CHOOSE k \in 1..Len(log) :
        /\ log[k].path = path
        /\ \A j \in (k + 1)..Len(log) : log[j].path # path]

(* the state the caller holds was returned by Startup or Advance *)
Produced == op.name \in {"Startup", "StartupExisting", "Advance"}

(* the last id of a branch's path *)
LastOf(b) == b.path[Len(b.path)]

(* for every cached branch the case covers that a collection from the  *)
(* state emits (each one, unless the host changed the store since):    *)
(* committing it leaves Test.X at the value the walk held at the       *)
(* emission                                                            *)
CommitAgrees(Covered(_)) ==
  Produced =>
    \A r \in {refreshBranches(World, cur)} :
      ~r.w.err =>
        \A k \in 1..Len(Branches) :
          (/\ Covered(Branches[k])
           /\ \E j \in 1..Len(r.w.emitted) : r.w.emitted[j].path = Branches[k].path)
          => \A ex \in {executeFlowBranch(World, cur, Branches[k])} :
               ~ex.w.err =>
                 ex.w.vars[ex.variables].X
                 = EmittedAs(r.w.emitted, Branches[k].path).X

AnyBranch(b) == TRUE

(* neither a node the state is positioned on, its own or a merged      *)
(* page's, nor the branch's last node carries a script                 *)
ScriptFreeEnds(b) ==
  /\ ScriptOf(LastOf(b)).op = "none"
  /\ \A n \in {cur.id} \cup {cur.mergePages[i].id : i \in 1..Len(cur.mergePages)} :
       getObject(n) # Null => ScriptOf(n).op = "none"

FirstDifference(a, b) ==
  CHOOSE d \in 1..(Len(a) + 1) :
    /\ \A i \in 1..(d - 1) : i <= Len(b) /\ a[i] = b[i]
    /\ d <= Len(a) => (d > Len(b) \/ a[d] # b[d])

(* the pin whose connections a node forks over, entered from last *)
ForkPin(n, last) ==
  CASE db[n].kind = "OutputPin" -> n
    [] db[n].kind \in {"FlowFragment", "Dialogue"} /\ Len(db[n].InputPins) > 0
         -> inputPinToFollow(n, last)
    [] OTHER -> Null

(* the pin's connection to x comes before its connection to y: lower   *)
(* target position, or the same position and exported earlier          *)
ConnectedBefore(pin, x, y) ==
  /\ pin # Null
  /\ \E i, j \in 1..Len(db[pin].Connections) :
       /\ db[pin].Connections[i].TargetPin = x
       /\ db[pin].Connections[j].TargetPin = y
       /\ \/ PositionY(db[pin].Connections[i]) < PositionY(db[pin].Connections[j])
          \/ /\ PositionY(db[pin].Connections[i]) = PositionY(db[pin].Connections[j])
             /\ i < j

(* the i-th node of a walk that left the position along the path; the  *)
(* position itself for i = 0 and the node before it for i = -1         *)
Walked(path, i) == IF i > 0 THEN path[i] ELSE IF i = 0 THEN cur.id ELSE cur.last

(* a depth-first walk finds path a before path b: a ends where b goes  *)
(* on, or they part at a fork whose connection to a's side comes first *)
FoundBefore(a, b) ==
  \A d \in {FirstDifference(a, b)} :
    IF d > Len(a) THEN Len(b) > Len(a)
    ELSE /\ d <= Len(b)
         /\ ConnectedBefore(ForkPin(Walked(a, d - 1), Walked(a, d - 2)), a[d], b[d])

(* C32: branch collection is order-preserving: from every position the *)
(* collected branches appear in depth-first order, forks visited in    *)
(* the order of the forking pin's connections (ascending vertical      *)
(* position of the target, ties in exported order), and branch indices *)
(* increase strictly along that order.                                 *)
C32_BranchesInDepthFirstOrder ==
  \A c \in {PrimaryCollection} :
    \A k \in 1..(Len(c.branches) - 1) :
      /\ c.branches[k].index < c.branches[k + 1].index
      /\ FoundBefore(c.branches[k].path, c.branches[k + 1].path)

(* two branches collected one after the other part at a pin whose      *)
(* connections to them have targets at the same vertical position      *)
C32_Witness ==
  \E c \in {PrimaryCollection} :
    \E k \in 1..(Len(c.branches) - 1) :
      \E d \in {FirstDifference(c.branches[k].path, c.branches[k + 1].path)} :
        /\ d <= Len(c.branches[k].path) /\ d <= Len(c.branches[k + 1].path)
        /\ db[db[c.branches[k].path[d]].Owner].y
           = db[db[c.branches[k + 1].path[d]].Owner].y

(* path a goes on where path p ends *)
Extends(a, p) == Len(a) > Len(p) /\ \A i \in 1..Len(p) : a[i] = p[i]

(* the collection from the position of the state *)
Collection ==
  collectBranches(World, primaryIter(cur), cur.visits, NoBranch, 0, -1, Null, <<>>)

(* C33: when the policy answers Stop-and-continue at a node N reached  *)
(* by path p, the result contains a branch with path p ending at N and *)
(* every branch found by continuing past N along all of N's available  *)
(* branches, each with a path that extends p and an index greater than *)
(* that of the branch ending at N.                                     *)
C33_StopAndContinueKeepsAllPast ==
  (policy.has /\ getObject(cur.id) # Null) =>
    \A c \in {Collection} :
      ~c.w.err =>
        \A k \in 1..Len(c.r.branches) :
          \A p \in {c.r.branches[k].path} :
            customStopHandler(LastOf(c.r.branches[k])) = StopAndContinue =>
              /\ {c.r.branches[j].path : j \in {i \in 1..Len(c.r.branches) :
                                                  Extends(c.r.branches[i].path, p)}}
                 = {p \o q : q \in PathsFrom(p[Len(p)], Walked(p, Len(p) - 1),
                                             EmittedAs(c.w.emitted, p).X,
                                             Cardinality(NodeIds))}
              /\ \A j \in 1..Len(c.r.branches) :
                   Extends(c.r.branches[j].path, p)
                   => c.r.branches[j].index > c.r.branches[k].index

(* the paths of at most fuel steps that leave n by an available step,  *)
(* walk on through the node named through and otherwise pass no        *)
(* terminal node and end at one                                        *)
RECURSIVE PathsPast(_, _, _, _, _)
PathsPast(n, last, x, fuel, through) ==
  IF fuel = 0 THEN {}
  ELSE UNION {IF shouldStopAt(m) /\ m # through THEN {<<m>>}
              ELSE {<<m>> \o path
                    : path \in PathsPast(m, n, ValuePast(n, x), fuel - 1, through)}
              : m \in StepsFrom(n, last, x)}

(* the paths of the branches of a collection *)
PathsOf(c) == {c.r.branches[k].path : k \in 1..Len(c.r.branches)}

(* the node the policy answers for *)
PolicyNode == CHOOSE n \in DOMAIN policy.answer : TRUE

(* the policy answers t for a node that a walk from the position can   *)
(* reach                                                               *)
Answers(t) ==
  /\ policy.has
  /\ getObject(cur.id) # Null
  /\ policy.answer[PolicyNode] = t
  /\ \E path \in PathsPast(cur.id, cur.last, heapVars[cur.variables].X,
                           Cardinality(NodeIds), PolicyNode) :
       \E i \in 1..Len(path) : path[i] = PolicyNode

(* what Continue yields: the walk goes on through the node *)
ContinueWalksThrough ==
  Answers(Continue) =>
    \A c \in {Collection} :
      ~c.w.err =>
        PathsOf(c) = PathsPast(cur.id, cur.last, heapVars[cur.variables].X,
                               Cardinality(NodeIds), PolicyNode)

(* C34: when the policy answers Create-page at a node N, N's id is     *)
(* added to the resulting pages and collection otherwise proceeds as   *)
(* under Continue: no branch ending at N is emitted and the set of     *)
(* branch paths past N equals what Continue at N would yield.          *)
C34_CreatePageWalksLikeContinue ==
  /\ ContinueWalksThrough
  /\ Answers(CreatePage) =>
       \A c \in {Collection} :
         ~c.w.err =>
           /\ \E i \in 1..Len(c.r.pages) : c.r.pages[i] = PolicyNode
           /\ \A k \in 1..Len(c.r.branches) : LastOf(c.r.branches[k]) # PolicyNode
           /\ PathsOf(c) = PathsPast(cur.id, cur.last, heapVars[cur.variables].X,
                                     Cardinality(NodeIds), PolicyNode)

(* the node is classified Advance by the policy *)
ClassifiedAdvance(n) == policy.has /\ n # Null /\ customStopHandler(n) = AdvanceStop

(* the paths from the position that follow path and go on, by          *)
(* available steps, from its last node to the next terminal node       *)
Onward(path) ==
  {path \o q : q \in PathsFrom(path[Len(path)], Walked(path, Len(path) - 1),
                               ValueAfter(path, Len(path),
                                          heapVars[cur.variables].X),
                               Cardinality(NodeIds))}

YieldsDispatchedBy(p) ==
  ActionsOf(dispatched, LAMBDA d : d.by = p /\ d.action.type = "yield")

(* C36: when middleware passes nest, every action yielded by a         *)
(* non-shadow evaluation during either pass is dispatched exactly      *)
(* once: none is dispatched twice, and none yielded by the outer pass  *)
(* after the inner pass ended is dropped.                              *)
C36_NestedPassesDispatchEachYieldOnce ==
  /\ \A p \in 1..Len(passes) :
       (Finished(p) \/ Within(p, "return")) => YieldsDispatchedBy(p) = YieldsOf(p)
  /\ \A d, e \in 1..Len(dispatched) :
       (dispatched[d].action.type = "yield"
        /\ dispatched[d].action = dispatched[e].action) => d = e

(* ------------------------------------------------------------------ *)
(* The walks of the engine, step by step: one iteration of the loop of *)
(* collectBranches, one recursion of advanceGameFlowState at a time    *)
(* ------------------------------------------------------------------ *)
MaxSteps == 30

(* an export with a cycle: A -> Ao -> Hi -> H -> Ho -> Ai -> A; its    *)
(* only terminal node is the dialogue fragment A; no node has a script *)
CyclicGraph ==
     ("S"  :> ObjNode("DialogueFragment", <<"Si">>, <<"So">>, NoScript, {}, 0, Null, <<>>))
  @@ ("Si" :> PinNode("InputPin", "S", NoScript, <<>>))
  @@ ("So" :> PinNode("OutputPin", "S", NoScript, <<Conn("A", "Ai")>>))
  @@ ("Ai" :> PinNode("InputPin", "A", NoScript, <<>>))
  @@ ("A"  :> ObjNode("DialogueFragment", <<"Ai">>, <<"Ao">>, NoScript, {}, 1, Null, <<>>))
  @@ ("Ao" :> PinNode("OutputPin", "A", NoScript, <<Conn("H", "Hi")>>))
  @@ ("Hi" :> PinNode("InputPin", "H", NoScript, <<>>))
  @@ ("H"  :> ObjNode("Hub", <<"Hi">>, <<"Ho">>, NoScript, {}, 1, Null, <<>>))
  @@ ("Ho" :> PinNode("OutputPin", "H", NoScript,
                      <<Conn("A", "Ai"), Conn("E", "Ei")>>))
  @@ ("Ei" :> PinNode("InputPin", "E", NoScript, <<>>))
  @@ ("E"  :> ObjNode("DialogueFragment", <<"Ei">>, <<>>, NoScript, {}, 2, Null, <<>>))
  @@ ("M"  :> ObjNode("Hub", <<>>, <<"Mo">>, NoScript, {}, 3, Null, <<>>))
  @@ ("Mo" :> PinNode("OutputPin", "M", NoScript, <<Conn("H", "Hi")>>))

(* where a walk stands: the node and the one before it, whether it has *)
(* stepped yet, and the end of the first branch it returned so far     *)
Walker(id, last) ==
  [id |-> id, last |-> last, arrived |-> FALSE, first |-> Null, firstLast |-> Null]

(* an operation begins collecting at the position of the state;        *)
(* skipped: advanceGameFlowState will be called on what it collects    *)
Collecting(name, id, last, steps, advances) ==
  /\ cur' = [cur EXCEPT !.id = id, !.last = last]
  /\ evaluated' = Walker(id, last)
  /\ op' = [name |-> "collect", start |-> name, index |-> steps,
            skipped |-> advances]

InitWalk ==
  /\ HostRegistered
  /\ frames = <<>>
  /\ passes = <<>>
  /\ dispatched = <<>>
  /\ yieldLog = <<>>
  /\ finalizeAction = FALSE
  /\ db = CyclicGraph
  /\ policy \in {p \in Policies : DOMAIN p.answer \subseteq DOMAIN db}
  /\ heapVars = <<EmptyStore>>
  /\ heapVisits = <<EmptyVisitSet>>
  /\ heapBranches = << <<>> >>
  /\ cur = [id |-> Null, last |-> Null, pages |-> <<>>, mergePages |-> <<>>,
            variables |-> 1, visits |-> 1, branches |-> 1, turn |-> 0,
            terminalBranch |-> NoBranch]
  /\ actionQueue = <<>>
  /\ queueOn = FALSE
  /\ evaluated = Walker(Null, Null)
  /\ op = [name |-> "completed", start |-> "init", index |-> 0, skipped |-> FALSE]

walkRest ==
  <<db, heapVars, heapVisits, heapBranches, policy, actionQueue, queueOn,
    registryVars, passVars>>

Returned == op.name \in {"returned", "completed"}

(* one more step, counted up to the bound *)
Stepped == IF op.index < MaxSteps THEN op.index + 1 ELSE MaxSteps

(* the walk is over: the collection holds the branch it returned       *)
(* first, if any                                                       *)
ended(walker) ==
  IF walker.first = Null THEN [phase |-> "completed", walker |-> walker]
  ELSE [phase |-> "emitted",
        walker |-> [walker EXCEPT !.id = walker.first, !.last = walker.firstLast]]

(* the loop body gone wrong: a dropped walk goes on past the node *)
arrivedAndWentOn(walker, node, last) ==
  LET here == [walker EXCEPT !.id = node, !.last = last, !.arrived = TRUE]
      branch == IF walker.first = Null
                  THEN [here EXCEPT !.first = node, !.firstLast = last]
                  ELSE here
      behaviour == IF policy.has THEN customStopHandler(node) ELSE NormalStop
  IN IF ~shouldStopAt(node) THEN [phase |-> "collect", walker |-> here]
     ELSE CASE behaviour = StopAndContinue -> [phase |-> "collect", walker |-> branch]
            [] behaviour \in {CreatePage, Continue, Drop} ->
                 [phase |-> "collect", walker |-> here]
            [] OTHER -> ended(branch)

(* the walk has stepped onto node from last: what the loop body does   *)
(* with it                                                             *)
arrivedAt(walker, node, last) ==
  LET here == [walker EXCEPT !.id = node, !.last = last, !.arrived = TRUE]
      branch == IF walker.first = Null
                  THEN [here EXCEPT !.first = node, !.firstLast = last]
                  ELSE here
      behaviour == IF policy.has THEN customStopHandler(node) ELSE NormalStop
  IN IF ~shouldStopAt(node) THEN [phase |-> "collect", walker |-> here]
     ELSE CASE behaviour = StopAndContinue -> [phase |-> "collect", walker |-> branch]
            [] behaviour = Drop -> ended(here)
            [] behaviour \in {CreatePage, Continue} ->
                 [phase |-> "collect", walker |-> here]
            [] OTHER -> ended(branch)

(* one iteration of the loop of collectBranches for one of the forks   *)
walkOn(walker) ==
  IF walker.id = Null \/ getObject(walker.id) = Null THEN {ended(walker)}
  ELSE
    LET iter == [id |-> walker.id, last |-> walker.last,
                 variables |-> cur.variables, shadowing |-> TRUE]
        branches == numBranches(World, walker.id, cur.variables, cur.visits,
                                walker.last, TRUE).n
        recursed == /\ walker.arrived
                    /\ shouldStopAt(walker.id)
                    /\ policy.has
                    /\ customStopHandler(walker.id) \in {StopAndContinue, CreatePage}
        directions == IF recursed THEN {0}
                      ELSE IF branches = 0 THEN {}
                      ELSE IF branches = 1 THEN {-1}
                      ELSE 0..(branches - 1)
    IN IF directions = {} THEN {ended(walker)}
       ELSE {IF nx.node = Null THEN ended(walker)
             ELSE arrivedAt(walker, nx.node, nx.iter.last)
             : nx \in {basicNextFlowState(World, iter, d, cur.visits)
                       : d \in directions}}

WalkStep ==
  /\ op.name = "collect"
  /\ \E out \in walkOn(evaluated) :
       /\ evaluated' = out.walker
       /\ op' = [op EXCEPT !.name = out.phase, !.index = Stepped]
  /\ UNCHANGED <<cur, walkRest>>

(* advanceGameFlowState on what was collected: the branch is executed, *)
(* the state moves to its end and is refreshed there; it advances      *)
(* again when the policy classifies the end as Advance                 *)
SkipThrough ==
  /\ op.name = "emitted"
  /\ op.skipped
  /\ Collecting(op.start, evaluated.id, evaluated.last, Stepped,
                ClassifiedAdvance(evaluated.id))
  /\ UNCHANGED walkRest

(* return [newFlowState, curr] *)
ReturnState ==
  /\ op.name = "emitted"
  /\ ~op.skipped
  /\ op' = [op EXCEPT !.name = "returned"]
  /\ UNCHANGED <<cur, evaluated, walkRest>>

(* startupGameFlowState: refreshed at the start node, returned there   *)
(* if it is a terminal node and advanced along branch 0 otherwise      *)
HostStartup ==
  \E start \in StartIds :
    /\ Returned
    /\ Collecting("Startup", getObject(start), Null, 0,
                  getObject(start) # Null /\ ~shouldStopAt(start))
    /\ UNCHANGED walkRest

(* advanceGameFlowState along a branch the state caches *)
HostAdvance ==
  /\ op.name = "returned"
  /\ Collecting("Advance", evaluated.id, evaluated.last, 0,
                ClassifiedAdvance(evaluated.id))
  /\ UNCHANGED walkRest

(* refreshBranches of the state the host holds *)
HostRefresh ==
  /\ Returned
  /\ op.start # "init"
  /\ Collecting("Refresh", cur.id, cur.last, 0, FALSE)
  /\ UNCHANGED walkRest

(* completeFlow: the fallback, a path already collected, is executed   *)
(* and the position cleared                                            *)
HostComplete ==
  /\ op.name = "completed"
  /\ cur.id # Null
  /\ cur' = [cur EXCEPT !.id = Null]
  /\ evaluated' = Walker(Null, Null)
  /\ op' = [name |-> "completed", start |-> "Complete", index |-> 0,
            skipped |-> FALSE]
  /\ UNCHANGED walkRest

NextWalk ==
  \/ HostStartup
  \/ HostAdvance
  \/ HostRefresh
  \/ HostComplete
  \/ WalkStep
  \/ SkipThrough
  \/ ReturnState

(* an operation, once called, runs on: its steps are weakly fair; the  *)
(* host calls operations as it pleases                                 *)
SpecWalk ==
  /\ InitWalk
  /\ [][NextWalk]_vars
  /\ WF_vars(WalkStep)
  /\ WF_vars(SkipThrough)
  /\ WF_vars(ReturnState)

(* the nodes a step can lead to from n, whatever the walk holds *)
Successors(n) ==
  UNION {StepsFrom(n, last, x) : last \in NodeIds \cup {Null}, x \in Values}

(* the nodes reached from the nodes in from by at most fuel steps that *)
(* pass only nodes where walks go on                                   *)
RECURSIVE ReachedPast(_, _, _)
ReachedPast(from, fuel, goesOn) ==
  IF fuel = 0 THEN from
  ELSE ReachedPast(from \cup UNION {Successors(n) : n \in from \cap goesOn},
                   fuel - 1, goesOn)

(* every cycle of the export holds a node where walks do not go on *)
CyclesBroken(goesOn) ==
  \A n \in goesOn :
    n \notin ReachedPast(Successors(n), Cardinality(NodeIds), goesOn)

NotTerminal == {n \in NodeIds : ~shouldStopAt(n)}

(* the nodes a walk passes: those that are no terminal nodes and those *)
(* the policy answers Continue, Stop-and-continue, Create-page or      *)
(* Advance for                                                         *)
WalksPast ==
  {n \in NodeIds :
     \/ ~shouldStopAt(n)
     \/ /\ policy.has
        /\ customStopHandler(n) \in {Continue, StopAndContinue, CreatePage,
                                    AdvanceStop}}

(* C37 as stated: on every finite graph in which each cycle contains a *)
(* terminal node, Startup, Advance, RefreshBranches and CompleteFlow   *)
(* terminate, within a number of steps bounded by the size of the      *)
(* graph, whatever the policy answers.                                 *)
C37_OperationsTerminate ==
  /\ [](CyclesBroken(NotTerminal) => op.index <= 2 * Cardinality(NodeIds))
  /\ (CyclesBroken(NotTerminal) /\ ~Returned) ~> Returned

(* C37 amended: the same on every finite graph in which each cycle     *)
(* contains a terminal node for which the policy answers Normal-stop,  *)
(* Drop or nothing (or no policy is configured): a cycle whose         *)
(* terminal nodes are all answered with Continue, Stop-and-continue,   *)
(* Create-page or Advance is walked for ever.                          *)
C37_OperationsTerminateWhenWalksStop ==
  /\ [](CyclesBroken(WalksPast) => op.index <= 2 * Cardinality(NodeIds))
  /\ (CyclesBroken(WalksPast) /\ ~Returned) ~> Returned

(* a collection that began on the cycle's terminal node has walked the *)
(* cycle round and returned the branch that ends on that node          *)
C37_Witness ==
  /\ CyclesBroken(WalksPast)
  /\ op.name = "returned"
  /\ cur.id = "A"
  /\ evaluated.id = "A"
  /\ op.index >= 5

(* C38: sibling forks are isolated during collection: the values a     *)
(* walk holds on a fork are those of the shared prefix plus that       *)
(* fork's own steps only; what a sibling fork explored before it wrote *)
(* is not seen.                                                        *)
C38_ForksSeeOnlyTheirOwnWrites ==
  getObject(cur.id) # Null =>
    \A c \in {Collection} :
      ~c.w.err =>
        /\ \A k \in 1..Len(c.r.branches) :
             \E j \in 1..Len(c.w.emitted) :
               /\ c.w.emitted[j].path = c.r.branches[k].path
               /\ c.w.emitted[j].X
                  = ValueAfter(c.r.branches[k].path, Len(c.r.branches[k].path) - 1,
                               ValuePast(cur.id, heapVars[cur.variables].X))
        /\ c.w.vars[cur.variables] = heapVars[cur.variables]

(* a fork explored first writes Test.X = 2, and a sibling explored     *)
(* after it is collected with the value of the shared prefix, while    *)
(* the guard of another sibling, which asks for 2, lets no walk pass   *)
C38_Witness ==
  /\ getObject(cur.id) # Null
  /\ \A c \in {Collection} :
       /\ ~c.w.err
       /\ \E j, k \in 1..Len(c.w.emitted) :
            /\ j < k
            /\ \E i \in 1..Len(c.w.emitted[j].path) :
                 ScriptOf(c.w.emitted[j].path[i]) = SetX(2)
            /\ c.w.emitted[j].X = 2
            /\ c.w.emitted[k].X = 1
       /\ \E pin \in DOMAIN db :
            /\ db[pin].kind = "InputPin"
            /\ db[pin].Text = XAtLeast(2)
            /\ \A k \in 1..Len(c.r.branches) :
                 \A i \in 1..Len(c.r.branches[k].path) : c.r.branches[k].path[i] # pin
            /\ \E k \in 1..Len(c.r.branches) :
                 /\ Len(c.r.branches[k].path) > 0
                 /\ pin \in Successors(c.r.branches[k].path[1])

(* C39: with no custom stop policy, every state returned by Startup or *)
(* Advance that has a position has at least one cached branch or a     *)
(* fallback terminal branch.                                           *)
C39_PositionedStateHasAWayOn ==
  (~policy.has /\ Produced /\ cur.id # Null) =>
    (Len(Branches) > 0 \/ cur.terminalBranch # NoBranch)

Refreshed == op.name \in {"Startup", "StartupExisting", "Advance", "Refresh"}

(* C40: whenever the branch cache of a state produced by Startup,      *)
(* Advance or RefreshBranches is not empty it holds a branch with      *)
(* index 0, under every custom stop policy.                            *)
C40_CacheHoldsBranchZero ==
  (Refreshed /\ Len(Branches) > 0) => Cached(0)

====
